---- MODULE Spec2Model ----
(***************************************************************************)
(* Model of the incremental synchronisation engine of oss-porter:         *)
(*   core/src/state.rs   the sync cursor store (read / write / commit)    *)
(*   core/src/update.rs  commit discovery and the patch applier           *)
(*   cli/src/main.rs     handle_update, the interactive review loop       *)
(*                                                                         *)
(* Strings are sequences of one-character strings.  A commit hash is a    *)
(* one-character string, an Option<String> is a sequence of length 0      *)
(* (None) or 1 (Some(s)).                                                  *)
(***************************************************************************)
EXTENDS Integers, Sequences, FiniteSets, TLC

(* ------------------------------ bounds -------------------------------- *)
\* longest identifier string handed to the cursor store by a library caller
MaxLen == 2
\* number of commits the internal remote branch can grow to
MaxCommits == 3
\* number of update runs started in one behaviour
MaxRuns == 1
\* number of "Skip for now" choices in one run
MaxDefer == 2
\* bytes of the record that can reach the file before a write fails
MaxCut == 3
\* lines git log prints when its output is drawn freely
MaxLines == 3
\* bytes of the patch handed to git am
MaxPatch == 2
\* bytes git am prints on its output
MaxOut == 2
\* bytes a pipe holds before a write to it blocks
PipeCap == 1

(* ------------------------------ strings ------------------------------- *)
None == <<>>
Some(s) == <<s>>

\* characters an identifier can be made of: a hash digit, a blank, and a
\* character a TOML basic string has to escape
Alphabet == {"1", " ", "\""}
Whitespace == {" ", "\t", "\n"}

RECURSIVE StringsUpTo(_)
StringsUpTo(n) ==
  IF n = 0 THEN {<<>>}
  ELSE LET shorter == StringsUpTo(n - 1)
       IN  shorter \cup {Append(s, c) : s \in {t \in shorter : Len(t) = n - 1}, c \in Alphabet}

Digit == <<"1", "2", "3", "4", "5", "6", "7", "8", "9">>
\* the hash of the i-th commit of the internal history
Hash(i) == <<Digit[i]>>

\* str::trim: drop leading and trailing whitespace
RECURSIVE TrimStart(_)
TrimStart(s) ==
  IF s # <<>> /\ Head(s) \in Whitespace THEN TrimStart(Tail(s)) ELSE s

RECURSIVE TrimEnd(_)
TrimEnd(s) ==
  IF s # <<>> /\ s[Len(s)] \in Whitespace THEN TrimEnd(SubSeq(s, 1, Len(s) - 1)) ELSE s

trim(s) == TrimEnd(TrimStart(s))

(* --------------------- the persisted cursor record -------------------- *)
\* the field name of StateFileContent, one token of the file's text
KEY == "last_synced_internal_commit"

\* mutant of Escape: the identifier is written between the quotes as it is
Escape_Raw(s) == s

\* a TOML basic string escapes the quote and the backslash
RECURSIVE Escape(_)
Escape(s) ==
  IF s = <<>> THEN <<>>
  ELSE (IF Head(s) \in {"\"", "\\"} THEN <<"\\", Head(s)>> ELSE <<Head(s)>>) \o Escape(Tail(s))

\* toml::to_string_pretty(&StateFileContent): a None field is left out,
\* Some(s) is one key/value line
toml_to_string_pretty(state) ==
  IF state = None THEN <<>>
  ELSE <<KEY, " ", "=", " ", "\"">> \o Escape(state[1]) \o <<"\"", "\n">>

\* reads a basic string body from position i of t up to the closing quote;
\* the result is [ok, str, rest] where rest is the position after the quote
RECURSIVE ReadBasic(_, _, _)
ReadBasic(t, i, acc) ==
  IF i > Len(t) THEN [ok |-> FALSE, str |-> <<>>, rest |-> i]
  ELSE IF t[i] = "\"" THEN [ok |-> TRUE, str |-> acc, rest |-> i + 1]
  ELSE IF t[i] = "\n" THEN [ok |-> FALSE, str |-> <<>>, rest |-> i]
  ELSE IF t[i] = "\\"
       THEN IF i + 1 <= Len(t) /\ t[i + 1] \in {"\"", "\\"}
            THEN ReadBasic(t, i + 2, Append(acc, t[i + 1]))
            ELSE [ok |-> FALSE, str |-> <<>>, rest |-> i]
  ELSE ReadBasic(t, i + 1, Append(acc, t[i]))

\* skips blanks (not newlines) from position i
RECURSIVE SkipBlank(_, _)
SkipBlank(t, i) ==
  IF i <= Len(t) /\ t[i] \in {" ", "\t"} THEN SkipBlank(t, i + 1) ELSE i

\* toml::from_str::<StateFileContent>: a document without the key gives
\* None, one key/value line gives Some(value), anything else is an error
toml_from_str(content) ==
  LET t == trim(content) IN
  IF t = <<>> THEN [ok |-> TRUE, value |-> None]
  ELSE IF t[1] # KEY THEN [ok |-> FALSE, value |-> None]
  ELSE LET eq == SkipBlank(t, 2) IN
       IF eq > Len(t) \/ t[eq] # "=" THEN [ok |-> FALSE, value |-> None]
       ELSE LET q == SkipBlank(t, eq + 1) IN
            IF q > Len(t) \/ t[q] # "\"" THEN [ok |-> FALSE, value |-> None]
            ELSE LET b == ReadBasic(t, q + 1, <<>>) IN
                 IF b.ok /\ b.rest = Len(t) + 1
                 THEN [ok |-> TRUE, value |-> Some(b.str)]
                 ELSE [ok |-> FALSE, value |-> None]

\* the state file on disk: whether it exists and its text
AbsentFile == [exists |-> FALSE, content |-> <<>>]
FileWith(text) == [exists |-> TRUE, content |-> text]

\* read_last_synced_commit: Ok(None) for a missing file, an empty file or
\* a blank identifier; an error for a file that does not parse
read_last_synced_commit(file) ==
  IF ~file.exists THEN [ok |-> TRUE, value |-> None]
  ELSE IF trim(file.content) = <<>> THEN [ok |-> TRUE, value |-> None]
  ELSE LET state == toml_from_str(file.content) IN
       IF ~state.ok THEN [ok |-> FALSE, value |-> None]
       ELSE IF state.value # None /\ trim(state.value[1]) = <<>>
            THEN [ok |-> TRUE, value |-> None]
            ELSE [ok |-> TRUE, value |-> state.value]

\* the outcomes of the three file-system steps of a write
WriteEnv == {"ok", "err_dir", "err_create", "err_write"}

\* write_last_synced_commit: serialises, creates the parent directory,
\* truncates the file and writes the text.  cut is how many bytes reached
\* the file when write_all fails.
write_last_synced_commit(file, commit_hash, env, cut) ==
  LET toml_string == toml_to_string_pretty(commit_hash) IN
  CASE env = "err_dir"    -> [ok |-> FALSE, file |-> file]
    [] env = "err_create" -> [ok |-> FALSE, file |-> file]
    [] env = "err_write" /\ toml_string # <<>>
                          -> [ok |-> FALSE, file |-> FileWith(SubSeq(toml_string, 1, cut))]
    [] OTHER              -> [ok |-> TRUE, file |-> FileWith(toml_string)]

(* --------------------------- commit discovery ------------------------- *)
\* A commit of the internal branch is known by its position i in the
\* branch's first-parent history; remote[i] says whether it touches the
\* tracked subdirectory ("sub") or only other paths ("other").
CommitKinds == {"sub", "other"}
Subject(i) == <<"s", Digit[i]>>
NUL == "\\0"

\* git fetch origin: the remote-tracking branch catches up with the remote
\* when the fetch succeeds and stays where it is when it fails
Fetch(rem, trk, fetchOk) == IF fetchOk THEN Len(rem) ELSE trk

\* position in the history of the commit a revision string names, 0 when
\* the string names no commit the local repository knows
Resolve(rev, trk) ==
  IF \E i \in 1..trk : Hash(i) = rev
  THEN CHOOSE i \in 1..trk : Hash(i) = rev
  ELSE 0

\* mutant of TouchesSubdir: the commits of the cursor record are outside
\* the tracked subdirectory
TouchesSubdir_NotState(kind) == kind = "sub"

\* the commits the pathspec of git log selects: those that change a file of
\* the tracked subdirectory, where the cursor record lives as well
TouchesSubdir(kind) == kind \in {"sub", "state"}

\* mutant of LogLines: the range includes the cursor commit itself
RECURSIVE LogLines_Inclusive(_, _, _)
LogLines_Inclusive(rem, from, to) ==
  IF to < from \/ to = 0 THEN <<>>
  ELSE (IF TouchesSubdir(rem[to]) THEN <<Hash(to) \o <<NUL>> \o Subject(to)>> ELSE <<>>)
       \o LogLines_Inclusive(rem, from, to - 1)

\* stdout of git log <since>..origin/<branch> --no-merges --first-parent
\* --pretty=format:%H%x00%s -- <subdir>: one line per commit after the
\* cursor that touches the subdirectory, newest first
RECURSIVE LogLines(_, _, _)
LogLines(rem, from, to) ==
  IF to <= from THEN <<>>
  ELSE (IF TouchesSubdir(rem[to]) THEN <<Hash(to) \o <<NUL>> \o Subject(to)>> ELSE <<>>)
       \o LogLines(rem, from, to - 1)

\* line.splitn(2, NUL): the parts of a line around its first NUL
RECURSIVE FirstNul(_, _)
FirstNul(line, i) ==
  IF i > Len(line) THEN 0 ELSE IF line[i] = NUL THEN i ELSE FirstNul(line, i + 1)

splitn2(line) ==
  LET k == FirstNul(line, 1) IN
  IF k = 0 THEN <<line>>
  ELSE <<SubSeq(line, 1, k - 1), SubSeq(line, k + 1, Len(line))>>

CommitInfo(h, subj) == [hash |-> h, subject |-> subj]

\* the text a process prints for a sequence of lines
RECURSIVE JoinLines(_)
JoinLines(ls) ==
  IF ls = <<>> THEN <<>>
  ELSE IF Len(ls) = 1 THEN ls[1]
  ELSE ls[1] \o <<"\n">> \o JoinLines(Tail(ls))

\* str::lines: the pieces of a text between its newlines; a final newline
\* ends the last line and starts no new one
RECURSIVE str_lines(_, _)
str_lines(text, cur) ==
  IF text = <<>> THEN (IF cur = <<>> THEN <<>> ELSE <<cur>>)
  ELSE IF Head(text) = "\n" THEN <<cur>> \o str_lines(Tail(text), <<>>)
  ELSE str_lines(Tail(text), Append(cur, Head(text)))

\* mutant of ParseRev: a line without NUL becomes a commit with no subject
RECURSIVE ParseRev_KeepBad(_)
ParseRev_KeepBad(lines) ==
  IF lines = <<>> THEN <<>>
  ELSE LET line  == lines[Len(lines)]
           parts == splitn2(line)
           rest  == ParseRev_KeepBad(SubSeq(lines, 1, Len(lines) - 1))
       IN  IF line = <<>> THEN rest
           ELSE IF Len(parts) = 2 THEN <<CommitInfo(parts[1], parts[2])>> \o rest
           ELSE <<CommitInfo(line, <<>>)>> \o rest

\* mutant of ParseRev: the lines are taken first to last, newest first
RECURSIVE ParseRev_NoReverse(_)
ParseRev_NoReverse(lines) ==
  IF lines = <<>> THEN <<>>
  ELSE LET parts == splitn2(Head(lines))
           rest  == ParseRev_NoReverse(Tail(lines))
       IN  IF Head(lines) = <<>> THEN rest
           ELSE IF Len(parts) = 2 THEN <<CommitInfo(parts[1], parts[2])>> \o rest
           ELSE rest

\* the loop over stdout.trim().lines().rev(): the lines from the last to
\* the first, each parsed into a CommitInfo or dropped
RECURSIVE ParseRev(_)
ParseRev(lines) ==
  IF lines = <<>> THEN <<>>
  ELSE LET line  == lines[Len(lines)]
           parts == splitn2(line)
           rest  == ParseRev(SubSeq(lines, 1, Len(lines) - 1))
       IN  IF line = <<>> THEN rest
           ELSE IF Len(parts) = 2 THEN <<CommitInfo(parts[1], parts[2])>> \o rest
           ELSE rest

\* the queue built from the stdout of git log: the trimmed text is cut into
\* lines and the lines are parsed from the last to the first
parse_log(stdout) == ParseRev(str_lines(trim(stdout), <<>>))

\* mutant of get_internal_commits_since: without a cursor the whole branch
\* is listed
get_internal_commits_since_NoneIsRoot(rem, trk, since_ref, fetchOk, logOk) ==
  LET fetched == Fetch(rem, trk, fetchOk)
      since   == IF since_ref = None THEN 0 ELSE Resolve(since_ref[1], fetched)
  IN  IF (since_ref # None /\ since = 0) \/ ~logOk
      THEN [ok |-> FALSE, err |-> "GitCommand", commits |-> <<>>, tracking |-> fetched]
      ELSE [ok |-> TRUE, err |-> "", commits |-> parse_log(JoinLines(LogLines(rem, since, fetched))),
            tracking |-> fetched]

\* get_internal_commits_since: fetch (non-fatal), require a cursor, list
\* the range and return it oldest first.  The result carries the
\* remote-tracking position the fetch left behind.
get_internal_commits_since(rem, trk, since_ref, fetchOk, logOk) ==
  LET fetched == Fetch(rem, trk, fetchOk) IN
  IF since_ref = None
  THEN [ok |-> FALSE, err |-> "GitOperation", commits |-> <<>>, tracking |-> fetched]
  ELSE LET since == Resolve(since_ref[1], fetched) IN
       IF since = 0 \/ ~logOk
       THEN [ok |-> FALSE, err |-> "GitCommand", commits |-> <<>>, tracking |-> fetched]
       ELSE [ok |-> TRUE, err |-> "", commits |-> parse_log(JoinLines(LogLines(rem, since, fetched))),
             tracking |-> fetched]

(* ----------------------------- patch applier -------------------------- *)
\* what the external tools do during one apply_commit_to_output call:
\*   patch   git format-patch fails, prints nothing, or prints a patch
\*   spawn   git am could be started
\*   wait    wait_with_output returned the process's output
\*   write   the writer thread delivered the patch, failed, or panicked
\*   exit    exit status of git am
\*   marker  its output carries one of the conflict markers
\*   stderr  what it printed on stderr besides the markers
\*   abort   git am --abort succeeded
ApplyEnvAll ==
  [patch : {"err", "empty", "bytes"}, spawn : BOOLEAN, wait : BOOLEAN,
   write : {"ok", "err", "panic"}, exit : {"success", "fail"},
   marker : BOOLEAN, stderr : {"", "fatal"}, abort : BOOLEAN]

\* one representative per distinguishable course of the call
ApplyEnv ==
  {e \in ApplyEnvAll :
     /\ (e.patch # "bytes" => e.spawn)
     /\ (e.patch # "bytes" \/ ~e.spawn => e.wait)
     /\ (e.patch # "bytes" \/ ~e.spawn \/ ~e.wait => e.write = "ok" /\ e.exit = "success")
     /\ (e.exit = "success" => ~e.marker)
     /\ (e.exit = "success" \/ e.marker \/ e.write # "ok" => e.abort /\ e.stderr = "")}

\* mutant of Classify: the output of git am is not searched for markers
Classify_NoMarker(exit, marker) ==
  IF exit = "success" THEN "Success" ELSE "Failure"

\* the classification of a finished git am (update.rs 226-267)
Classify(exit, marker) ==
  IF exit = "success" THEN "Success"
  ELSE IF marker THEN "Conflict"
  ELSE "Failure"

\* mutant of apply_commit_to_output: an empty patch is handed to git am,
\* which stops on it and leaves its session open
apply_commit_to_output_EmptyToAm(e, wasPaused) ==
  IF e.patch = "err"
  THEN [ok |-> FALSE, result |-> "Error", invoked |-> FALSE, committed |-> FALSE,
        paused |-> wasPaused, aborted |-> FALSE, text |-> ""]
  ELSE IF e.patch = "empty"
  THEN [ok |-> TRUE, result |-> "Conflict", invoked |-> TRUE, committed |-> FALSE,
        paused |-> TRUE, aborted |-> FALSE, text |-> ""]
  ELSE [ok |-> TRUE, result |-> Classify(e.exit, e.marker), invoked |-> TRUE,
        committed |-> (e.exit = "success"),
        paused |-> (wasPaused \/ (e.exit = "fail" /\ e.marker)),
        aborted |-> (e.exit = "fail" /\ ~e.marker), text |-> ""]

\* apply_commit_to_output: ok is FALSE when the call returns Err; result
\* is the ApplyResult; invoked says whether git am was started, committed
\* whether it created a commit in the output repository, paused whether
\* an apply session is left open there, aborted whether git am --abort
\* ran, text the diagnostic text a Failure carries
apply_commit_to_output(e, wasPaused) ==
  IF e.patch = "err"
  THEN [ok |-> FALSE, result |-> "Error", invoked |-> FALSE, committed |-> FALSE,
        paused |-> wasPaused, aborted |-> FALSE, text |-> ""]
  ELSE IF e.patch = "empty"
  THEN [ok |-> TRUE, result |-> "Success", invoked |-> FALSE, committed |-> FALSE,
        paused |-> wasPaused, aborted |-> FALSE, text |-> ""]
  ELSE IF ~e.spawn
  THEN [ok |-> FALSE, result |-> "Error", invoked |-> FALSE, committed |-> FALSE,
        paused |-> wasPaused, aborted |-> FALSE, text |-> ""]
  ELSE IF ~e.wait
  THEN [ok |-> FALSE, result |-> "Error", invoked |-> TRUE, committed |-> FALSE,
        paused |-> wasPaused, aborted |-> FALSE, text |-> ""]
  ELSE IF e.write # "ok"
  THEN [ok |-> FALSE, result |-> "Error", invoked |-> TRUE,
        committed |-> (e.exit = "success"),
        paused |-> (wasPaused \/ (e.exit = "fail" /\ e.marker)), aborted |-> FALSE,
        text |-> ""]
  ELSE LET r == Classify(e.exit, e.marker) IN
       [ok |-> TRUE, result |-> r, invoked |-> TRUE,
        committed |-> (r = "Success"),
        paused |-> CASE r = "Success"  -> wasPaused
                     [] r = "Conflict" -> TRUE
                     [] r = "Failure"  -> (wasPaused /\ ~e.abort),
        aborted |-> (r = "Failure"),
        text |-> IF r = "Failure" THEN e.stderr ELSE ""]

(* --------------------- committing the cursor record ------------------- *)
CommitEnv == {"ok", "err_status", "err_add", "err_commit"}

\* mutant of commit_state_file_change: the record is staged and committed
\* without asking git status first
commit_state_file_change_NoStatus(wt, idx, head, env) ==
  IF env = "err_add"
  THEN [ok |-> FALSE, idx |-> idx, head |-> head, created |-> 0]
  ELSE IF env = "err_commit"
  THEN [ok |-> FALSE, idx |-> wt, head |-> head, created |-> 0]
  ELSE [ok |-> TRUE, idx |-> wt, head |-> wt, created |-> 1]

\* commit_state_file_change on the internal working copy: wt is the file
\* on disk, idx the staged version, head the committed version.  created
\* is the number of commits made.
commit_state_file_change(wt, idx, head, env) ==
  IF env = "err_status"
  THEN [ok |-> FALSE, idx |-> idx, head |-> head, created |-> 0]
  ELSE IF wt = idx /\ idx = head
  THEN [ok |-> TRUE, idx |-> idx, head |-> head, created |-> 0]
  ELSE IF env = "err_add"
  THEN [ok |-> FALSE, idx |-> idx, head |-> head, created |-> 0]
  ELSE IF env = "err_commit"
  THEN [ok |-> FALSE, idx |-> wt, head |-> head, created |-> 0]
  ELSE [ok |-> TRUE, idx |-> wt, head |-> wt, created |-> 1]

(* -------------------------------- state ------------------------------- *)
VARIABLES
  stateFile,      \* the cursor record in the internal working copy
  indexFile,      \* its staged version
  headFile,       \* its committed version
  stateCommits,   \* messages of the commits made by commit_state_file_change
  remote,         \* kinds of the commits of the internal remote branch
  tracking,       \* how many of them origin/<branch> has locally
  output,         \* hashes of the commits git am created in the output repo
  amPaused,       \* an apply session is left open in the output repo
  pc,             \* position of handle_update
  result,         \* what the last handle_update returned
  last_synced_ref,
  commits_to_review,
  successfully_applied_commit,
  apply_all_mode,
  user_quit,
  skipped_commits,
  discovered,     \* the queue discovery returned to this run
  applyLog,       \* the apply_commit_to_output calls of this run, in order
  writes,         \* write_last_synced_commit calls of this run
  written,        \* the argument of the last of them
  filePreRun,     \* the cursor record when the run started
  outputPreRun,   \* the output repository when the run started
  choices,        \* kinds of operator answers given in this run
  defers,         \* "Skip for now" answers given in this run
  runs,           \* runs started
  offered,        \* the answer to the offer to commit the record in this run
  libPrev,        \* the library call before the last one, kept for a
                  \* read and a discovery
  libLast,        \* the last library call
  patchLeft,      \* bytes of the patch the writer thread has not written yet
  stdinPipe,      \* bytes waiting in the pipe to git am's stdin
  outLeft,        \* bytes git am has not printed yet
  stdoutPipe,     \* bytes waiting in the pipe from git am's output
  writerPc,       \* the writer thread: idle, run, ok, err, panic
  childPc,        \* git am: idle, think, read, print, exited
  childEof,       \* git am has read the end of its input
  exitStatus,     \* how git am exited
  waiterPc,       \* the calling thread: idle, wait, join, done
  amReturn        \* what apply_commit_to_output returned

storeVars == <<stateFile, indexFile, headFile, stateCommits>>
repoVars  == <<remote, tracking>>
outVars   == <<output, amPaused>>
loopVars  == <<last_synced_ref, commits_to_review, successfully_applied_commit,
               apply_all_mode, user_quit, skipped_commits>>
histVars  == <<discovered, applyLog, writes, written, filePreRun, outputPreRun,
               choices, defers, runs, offered>>
amVars    == <<patchLeft, stdinPipe, outLeft, stdoutPipe, writerPc, childPc,
               childEof, exitStatus, waiterPc, amReturn>>
libVars   == <<libPrev, libLast, amVars>>
vars == <<storeVars, repoVars, outVars, pc, result, loopVars, histVars, libVars>>

\* a library call: the function, its argument, whether it returned Ok, the
\* value it returned and, for a discovery, whether its fetch succeeded
Call(op, arg, ok, value, fetched) ==
  [op |-> op, arg |-> arg, ok |-> ok, value |-> value, fetched |-> fetched]
NoCall == Call("none", None, TRUE, <<>>, FALSE)

\* cursor records a working copy can hold before the first run: none, an
\* empty one, one with a blank identifier, one naming the extract point,
\* and one that is not TOML
InitFiles ==
  {AbsentFile, FileWith(<<>>), FileWith(toml_to_string_pretty(Some(<<" ">>))),
   FileWith(toml_to_string_pretty(Some(Hash(1)))), FileWith(<<"x">>)}

InitCommon ==
  /\ indexFile = stateFile /\ headFile = stateFile /\ stateCommits = <<>>
  /\ output = <<>> /\ amPaused = FALSE
  /\ pc = "idle" /\ result = "none"
  /\ last_synced_ref = None /\ commits_to_review = <<>>
  /\ successfully_applied_commit = None
  /\ apply_all_mode = FALSE /\ user_quit = FALSE /\ skipped_commits = <<>>
  /\ discovered = <<>> /\ applyLog = <<>> /\ writes = 0 /\ written = None
  /\ filePreRun = stateFile /\ outputPreRun = <<>>
  /\ choices = {} /\ defers = 0 /\ runs = 0 /\ offered = "none"
  /\ libPrev = NoCall /\ libLast = NoCall
  /\ patchLeft = 0 /\ stdinPipe = 0 /\ outLeft = 0 /\ stdoutPipe = 0
  /\ writerPc = "idle" /\ childPc = "idle" /\ childEof = FALSE
  /\ exitStatus = [exit |-> "success", marker |-> FALSE]
  /\ waiterPc = "idle" /\ amReturn = None

Init ==
  /\ stateFile \in InitFiles
  /\ remote = <<"sub">> /\ tracking = 1
  /\ InitCommon

(* ------------------------------ upstream ------------------------------ *)
\* somebody pushes a commit to the internal remote branch; a run sees it
\* only through the fetch of its discovery, so pushes are taken between runs
UpstreamPush(kind) ==
  /\ pc \in {"idle", "returned"}
  /\ Len(remote) < MaxCommits
  /\ remote' = Append(remote, kind)
  /\ UNCHANGED <<storeVars, tracking, outVars, pc, result, loopVars, histVars, libVars>>

\* how many commits of the cursor record the internal remote branch holds
RECURSIVE StateCommitsIn(_)
StateCommitsIn(rem) ==
  IF rem = <<>> THEN 0
  ELSE (IF Head(rem) = "state" THEN 1 ELSE 0) + StateCommitsIn(Tail(rem))

\* the operator pushes a commit made by commit_state_file_change to the
\* internal remote branch
PushStateCommit ==
  /\ pc \in {"idle", "returned"}
  /\ Len(remote) < MaxCommits
  /\ StateCommitsIn(remote) < Len(stateCommits)
  /\ remote' = Append(remote, "state")
  /\ UNCHANGED <<storeVars, tracking, outVars, pc, result, loopVars, histVars, libVars>>

(* ---------------------------- handle_update --------------------------- *)
Return(res) == pc' = "returned" /\ result' = res

\* mutant of is_empty: no queue counts as empty
is_empty_Never(q) == FALSE

\* VecDeque::is_empty (main.rs 787)
is_empty(q) == Len(q) = 0

\* main.rs 764-803: read the cursor, discover, set up the loop
StartRunBody(fetchOk, logOk) ==
  /\ pc \in {"idle", "returned"}
  /\ runs' = runs + 1
  /\ discovered' = IF read_last_synced_commit(stateFile).ok
                      /\ read_last_synced_commit(stateFile).value # None
                   THEN get_internal_commits_since(remote, tracking,
                          read_last_synced_commit(stateFile).value, fetchOk, logOk).commits
                   ELSE <<>>
  /\ applyLog' = <<>> /\ writes' = 0 /\ written' = None
  /\ filePreRun' = stateFile /\ outputPreRun' = output
  /\ choices' = {} /\ defers' = 0 /\ offered' = "none"
  /\ apply_all_mode' = FALSE /\ user_quit' = FALSE /\ skipped_commits' = <<>>
  /\ LET rd == read_last_synced_commit(stateFile) IN
     IF ~rd.ok
     THEN /\ Return("Err_read")
          /\ last_synced_ref' = None /\ commits_to_review' = <<>>
          /\ successfully_applied_commit' = None
          /\ UNCHANGED tracking
     ELSE IF rd.value = None
     THEN /\ Return("Err_nostate")
          /\ last_synced_ref' = None /\ commits_to_review' = <<>>
          /\ successfully_applied_commit' = None
          /\ UNCHANGED tracking
     ELSE LET d == get_internal_commits_since(remote, tracking, rd.value, fetchOk, logOk) IN
          /\ last_synced_ref' = rd.value
          /\ tracking' = d.tracking
          /\ IF ~d.ok
             THEN /\ Return("Err_discovery")
                  /\ commits_to_review' = <<>>
                  /\ successfully_applied_commit' = None
             ELSE IF is_empty(d.commits)
             THEN /\ Return("Ok_uptodate")
                  /\ commits_to_review' = <<>>
                  /\ successfully_applied_commit' = None
             ELSE /\ pc' = "review" /\ result' = "none"
                  /\ commits_to_review' = d.commits
                  /\ successfully_applied_commit' = rd.value
  /\ UNCHANGED <<storeVars, remote, outVars, libVars>>

\* mutant of pop_front: the front commit is read but stays in the queue
pop_front_Peek(q) == [item |-> Head(q), rest |-> q]

\* a run is started, at most MaxRuns times
StartRun(fetchOk, logOk) ==
  /\ runs < MaxRuns
  /\ StartRunBody(fetchOk, logOk)

\* VecDeque operations of the review queue
pop_front(q) == [item |-> Head(q), rest |-> Tail(q)]

\* mutant of push_back: the commit goes to the front
push_back_ToFront(q, c) == <<c>> \o q

push_back(q, c) == Append(q, c)

\* mutant of push_front: the commit goes to the back
push_front_ToBack(q, c) == Append(q, c)

push_front(q, c) == <<c>> \o q

\* mutant of OnApplyResult: an outcome other than Success clears the last
\* applied commit
OnApplyResult_ClearsOnHalt(last, hash, res) ==
  IF res = "Success" THEN Some(hash) ELSE None

\* mutant of OnApplyResult: every outcome moves the last applied commit
OnApplyResult_AnyOutcome(last, hash, res) == Some(hash)

\* main.rs 871-873: only Success moves the last applied commit
OnApplyResult(last, hash, res) ==
  IF res = "Success" THEN Some(hash) ELSE last

\* mutant of Halts: a Failure does not end the loop
Halts_ConflictOnly(res) == res = "Conflict"

\* main.rs 874-902: Conflict and Failure set user_quit and break
Halts(res) == res \in {"Conflict", "Failure"}

\* main.rs 937-945: the check that ends Apply All mode
ApplyAllStop(mode, choice, last, hash) ==
  mode /\ choice = 0 /\ last # Some(hash)

\* `while let Some(..) = pop_front()`: the loop ends on an empty queue
LoopOrExit(q) == IF q = <<>> THEN "postloop" ELSE "review"

InLoop == pc = "review" /\ commits_to_review # <<>>

\* mutant of ReviewDiffError: declining the skip returns from the run at
\* once
ReviewDiffError_NoReturns(answer) ==
  /\ InLoop /\ ~apply_all_mode
  /\ LET p == pop_front(commits_to_review) IN
     CASE answer = "yes" ->
            /\ skipped_commits' = Append(skipped_commits, p.item)
            /\ commits_to_review' = p.rest
            /\ choices' = choices \cup {"DiffSkip"}
            /\ pc' = LoopOrExit(p.rest)
            /\ UNCHANGED <<user_quit, result>>
       [] answer = "no" ->
            /\ user_quit' = TRUE
            /\ commits_to_review' = p.rest
            /\ choices' = choices \cup {"DiffQuit"}
            /\ Return("Ok")
            /\ UNCHANGED <<skipped_commits>>
       [] OTHER ->
            /\ Return("Err_prompt")
            /\ commits_to_review' = p.rest
            /\ UNCHANGED <<skipped_commits, user_quit, choices>>
  /\ UNCHANGED <<storeVars, repoVars, outVars, last_synced_ref,
                 successfully_applied_commit, apply_all_mode, discovered, applyLog,
                 writes, written, filePreRun, outputPreRun, defers, runs, offered, libVars>>

\* main.rs 825-841: the diff cannot be produced; the operator confirms
\* skipping the commit, declines (quit), or the prompt itself fails
ReviewDiffError(answer) ==
  /\ InLoop /\ ~apply_all_mode
  /\ LET p == pop_front(commits_to_review) IN
     CASE answer = "yes" ->
            /\ skipped_commits' = Append(skipped_commits, p.item)
            /\ commits_to_review' = p.rest
            /\ choices' = choices \cup {"DiffSkip"}
            /\ pc' = LoopOrExit(p.rest)
            /\ UNCHANGED <<user_quit, result>>
       [] answer = "no" ->
            /\ user_quit' = TRUE
            /\ commits_to_review' = p.rest
            /\ choices' = choices \cup {"DiffQuit"}
            /\ pc' = "postloop"
            /\ UNCHANGED <<skipped_commits, result>>
       [] OTHER ->
            /\ Return("Err_prompt")
            /\ commits_to_review' = p.rest
            /\ UNCHANGED <<skipped_commits, user_quit, choices>>
  /\ UNCHANGED <<storeVars, repoVars, outVars, last_synced_ref,
                 successfully_applied_commit, apply_all_mode, discovered, applyLog,
                 writes, written, filePreRun, outputPreRun, defers, runs, offered, libVars>>

\* mutant of ReviewPromptError: a failed prompt ends the loop like Quit
ReviewPromptError_Break ==
  /\ InLoop /\ ~apply_all_mode
  /\ commits_to_review' = pop_front(commits_to_review).rest
  /\ user_quit' = TRUE /\ pc' = "postloop" /\ result' = result
  /\ UNCHANGED <<storeVars, repoVars, outVars, last_synced_ref,
                 successfully_applied_commit, apply_all_mode,
                 skipped_commits, histVars, libVars>>

\* main.rs 845-859: the Select prompt fails, `?` returns the error
ReviewPromptError ==
  /\ InLoop /\ ~apply_all_mode
  /\ commits_to_review' = pop_front(commits_to_review).rest
  /\ Return("Err_prompt")
  /\ UNCHANGED <<storeVars, repoVars, outVars, last_synced_ref,
                 successfully_applied_commit, apply_all_mode, user_quit,
                 skipped_commits, histVars, libVars>>

\* mutant of ReviewApply: a commit applied with Success goes back to the end
\* of the queue
ReviewApply_Requeue(e) ==
  /\ InLoop
  /\ LET p    == pop_front(commits_to_review)
         h    == p.item.hash
         r    == apply_commit_to_output(e, amPaused)
         last == OnApplyResult(successfully_applied_commit, h, r.result)
     IN
     /\ commits_to_review' = IF r.ok /\ r.result = "Success"
                              THEN push_back(p.rest, p.item) ELSE p.rest
     /\ applyLog' = Append(applyLog, [hash |-> h, result |-> r.result,
                                      invoked |-> r.invoked, aborted |-> r.aborted])
     /\ output' = IF r.committed THEN Append(output, h) ELSE output
     /\ amPaused' = r.paused
     /\ choices' = IF apply_all_mode THEN choices ELSE choices \cup {"Apply"}
     /\ IF ~r.ok
        THEN /\ Return("Err_apply")
             /\ UNCHANGED <<successfully_applied_commit, user_quit>>
        ELSE /\ successfully_applied_commit' = last
             /\ result' = result
             /\ IF Halts(r.result) \/ ApplyAllStop(apply_all_mode, 0, last, h)
                THEN user_quit' = TRUE /\ pc' = "postloop"
                ELSE user_quit' = user_quit /\ pc' = LoopOrExit(p.rest)
  /\ UNCHANGED <<storeVars, repoVars, last_synced_ref, apply_all_mode, skipped_commits,
                 discovered, writes, written, filePreRun, outputPreRun, defers, runs, offered,
                 libVars>>

\* choice 0, answered by the operator or implied by Apply All mode
\* (main.rs 860-904 and 937-945)
ReviewApply(e) ==
  /\ InLoop
  /\ LET p    == pop_front(commits_to_review)
         h    == p.item.hash
         r    == apply_commit_to_output(e, amPaused)
         last == OnApplyResult(successfully_applied_commit, h, r.result)
     IN
     /\ commits_to_review' = p.rest
     /\ applyLog' = Append(applyLog, [hash |-> h, result |-> r.result,
                                      invoked |-> r.invoked, aborted |-> r.aborted])
     /\ output' = IF r.committed THEN Append(output, h) ELSE output
     /\ amPaused' = r.paused
     /\ choices' = IF apply_all_mode THEN choices ELSE choices \cup {"Apply"}
     /\ IF ~r.ok
        THEN /\ Return("Err_apply")
             /\ UNCHANGED <<successfully_applied_commit, user_quit>>
        ELSE /\ successfully_applied_commit' = last
             /\ result' = result
             /\ IF Halts(r.result) \/ ApplyAllStop(apply_all_mode, 0, last, h)
                THEN user_quit' = TRUE /\ pc' = "postloop"
                ELSE user_quit' = user_quit /\ pc' = LoopOrExit(p.rest)
  /\ UNCHANGED <<storeVars, repoVars, last_synced_ref, apply_all_mode, skipped_commits,
                 discovered, writes, written, filePreRun, outputPreRun, defers, runs, offered,
                 libVars>>

\* mutant of ReviewSkip: the skipped commit counts as the last applied one
ReviewSkip_Advances ==
  /\ InLoop /\ ~apply_all_mode
  /\ LET p == pop_front(commits_to_review) IN
     /\ skipped_commits' = Append(skipped_commits, p.item)
     /\ commits_to_review' = p.rest
     /\ successfully_applied_commit' = Some(p.item.hash)
     /\ pc' = LoopOrExit(p.rest)
  /\ choices' = choices \cup {"Skip"}
  /\ UNCHANGED <<storeVars, repoVars, outVars, result, last_synced_ref,
                 apply_all_mode, user_quit, discovered,
                 applyLog, writes, written, filePreRun, outputPreRun, defers, runs,
                 offered, libVars>>

\* choice 1, "No (skip always)" (main.rs 906-913)
ReviewSkip ==
  /\ InLoop /\ ~apply_all_mode
  /\ LET p == pop_front(commits_to_review) IN
     /\ skipped_commits' = Append(skipped_commits, p.item)
     /\ commits_to_review' = p.rest
     /\ pc' = LoopOrExit(p.rest)
  /\ choices' = choices \cup {"Skip"}
  /\ UNCHANGED <<storeVars, repoVars, outVars, result, last_synced_ref,
                 successfully_applied_commit, apply_all_mode, user_quit, discovered,
                 applyLog, writes, written, filePreRun, outputPreRun, defers, runs, offered,
                 libVars>>

\* choice 2, "Skip for now" (main.rs 915-919)
ReviewDefer ==
  /\ InLoop /\ ~apply_all_mode
  /\ defers < MaxDefer
  /\ LET p == pop_front(commits_to_review) IN
     commits_to_review' = push_back(p.rest, p.item)
  /\ defers' = defers + 1
  /\ choices' = choices \cup {"Defer"}
  /\ UNCHANGED <<storeVars, repoVars, outVars, pc, result, last_synced_ref,
                 successfully_applied_commit, apply_all_mode, user_quit,
                 skipped_commits, discovered, applyLog, writes, written, filePreRun,
                 outputPreRun, runs, offered, libVars>>

\* mutant of ReviewApplyAll: the commit is put back but the mode stays
\* interactive
ReviewApplyAll_NoSwitch ==
  /\ InLoop /\ ~apply_all_mode
  /\ LET p == pop_front(commits_to_review) IN
     commits_to_review' = push_front(p.rest, p.item)
  /\ apply_all_mode' = apply_all_mode
  /\ choices' = choices \cup {"ApplyAll"}
  /\ UNCHANGED <<storeVars, repoVars, outVars, pc, result, last_synced_ref,
                 successfully_applied_commit, user_quit, skipped_commits, discovered,
                 applyLog, writes, written, filePreRun, outputPreRun, defers, runs, offered,
                 libVars>>

\* choice 3, "Apply ALL remaining" (main.rs 921-926)
ReviewApplyAll ==
  /\ InLoop /\ ~apply_all_mode
  /\ LET p == pop_front(commits_to_review) IN
     commits_to_review' = push_front(p.rest, p.item)
  /\ apply_all_mode' = TRUE
  /\ choices' = choices \cup {"ApplyAll"}
  /\ UNCHANGED <<storeVars, repoVars, outVars, pc, result, last_synced_ref,
                 successfully_applied_commit, user_quit, skipped_commits, discovered,
                 applyLog, writes, written, filePreRun, outputPreRun, defers, runs, offered,
                 libVars>>

\* mutant of ReviewQuit: the run returns at once, without the write
ReviewQuit_Return ==
  /\ InLoop /\ ~apply_all_mode
  /\ commits_to_review' = pop_front(commits_to_review).rest
  /\ user_quit' = TRUE
  /\ Return("Ok")
  /\ choices' = choices \cup {"Quit"}
  /\ UNCHANGED <<storeVars, repoVars, outVars, last_synced_ref,
                 successfully_applied_commit, apply_all_mode, skipped_commits,
                 discovered, applyLog, writes, written, filePreRun, outputPreRun,
                 defers, runs, offered, libVars>>

\* choice 4, "Quit update" (main.rs 928-932)
ReviewQuit ==
  /\ InLoop /\ ~apply_all_mode
  /\ commits_to_review' = pop_front(commits_to_review).rest
  /\ user_quit' = TRUE
  /\ pc' = "postloop"
  /\ choices' = choices \cup {"Quit"}
  /\ UNCHANGED <<storeVars, repoVars, outVars, result, last_synced_ref,
                 successfully_applied_commit, apply_all_mode, skipped_commits,
                 discovered, applyLog, writes, written, filePreRun, outputPreRun,
                 defers, runs, offered, libVars>>

\* mutant of PostLoop: an error of the write is dropped and the commit of
\* the record is offered all the same
PostLoop_Swallow(env, cut) ==
  /\ pc = "postloop"
  /\ env = "err_write" \/ cut = 0
  /\ stateFile' = write_last_synced_commit(stateFile, successfully_applied_commit,
                                           env, cut).file
  /\ pc' = "confirm" /\ result' = result
  /\ writes' = writes + 1
  /\ written' = successfully_applied_commit
  /\ UNCHANGED <<indexFile, headFile, stateCommits, repoVars, outVars, loopVars,
                 discovered, applyLog, filePreRun, outputPreRun, choices, defers, runs, offered,
                 libVars>>

\* main.rs 966-974: the cursor write after the loop; its error is returned
PostLoop(env, cut) ==
  /\ pc = "postloop"
  /\ env = "err_write" \/ cut = 0
  /\ LET w == write_last_synced_commit(stateFile, successfully_applied_commit, env, cut) IN
     /\ stateFile' = w.file
     /\ IF w.ok THEN pc' = "confirm" /\ result' = result
                ELSE Return("Err_write")
  /\ writes' = writes + 1
  /\ written' = successfully_applied_commit
  /\ UNCHANGED <<indexFile, headFile, stateCommits, repoVars, outVars, loopVars,
                 discovered, applyLog, filePreRun, outputPreRun, choices, defers, runs, offered,
                 libVars>>

\* mutant of CommitResult: the error of the commit is returned
CommitResult_Propagate(commitOk) == IF commitOk THEN "Ok" ELSE "Err_commit"

\* main.rs 985-988: an error of the commit is printed, not returned
CommitResult(commitOk) == "Ok"

\* main.rs 977-1010: the offer to commit the cursor record
CommitOffer(answer, env) ==
  /\ pc = "confirm"
  /\ CASE answer = "yes" ->
            LET c == commit_state_file_change(stateFile, indexFile, headFile, env) IN
            /\ indexFile' = c.idx /\ headFile' = c.head
            /\ stateCommits' = IF c.created = 1
                                THEN Append(stateCommits, successfully_applied_commit)
                                ELSE stateCommits
            /\ Return(CommitResult(c.ok))
       [] answer = "no" ->
            /\ Return("Ok")
            /\ UNCHANGED <<indexFile, headFile, stateCommits>>
       [] OTHER ->
            /\ Return("Err_confirm")
            /\ UNCHANGED <<indexFile, headFile, stateCommits>>
  /\ offered' = answer
  /\ UNCHANGED <<stateFile, repoVars, outVars, loopVars, discovered, applyLog, writes,
                 written, filePreRun, outputPreRun, choices, defers, runs, libVars>>

Answers == {"yes", "no", "err"}

Next ==
  \/ \E kind \in CommitKinds : UpstreamPush(kind)
  \/ PushStateCommit
  \/ \E fetchOk \in BOOLEAN, logOk \in BOOLEAN : StartRun(fetchOk, logOk)
  \/ \E answer \in Answers : ReviewDiffError(answer)
  \/ ReviewPromptError
  \/ \E e \in ApplyEnv : ReviewApply(e)
  \/ ReviewSkip
  \/ ReviewDefer
  \/ ReviewApplyAll
  \/ ReviewQuit
  \/ \E env \in WriteEnv, cut \in 0..MaxCut : PostLoop(env, cut)
  \/ \E answer \in Answers, env \in CommitEnv : CommitOffer(answer, env)

Spec == Init /\ [][Next]_vars

(* ------------- the cursor store used directly by a caller ------------- *)
\* the cursor values a caller can hand to the store
CursorValues == {None} \cup {Some(s) : s \in StringsUpTo(MaxLen)}

\* write_last_synced_commit called with an arbitrary cursor value
StoreWrite(v, env, cut) ==
  /\ IF env = "err_write" THEN cut < Len(toml_to_string_pretty(v)) ELSE cut = 0
  /\ LET w == write_last_synced_commit(stateFile, v, env, cut) IN
     /\ stateFile' = w.file
     /\ libLast' = Call("write", v, w.ok, <<>>, FALSE)
  /\ libPrev' = NoCall /\ UNCHANGED amVars
  /\ UNCHANGED <<indexFile, headFile, stateCommits, repoVars, outVars, pc, result,
                 loopVars, histVars>>

\* read_last_synced_commit called on whatever the file holds
StoreRead ==
  /\ LET r == read_last_synced_commit(stateFile) IN
     libLast' = Call("read", None, r.ok, r.value, FALSE)
  /\ libPrev' = libLast /\ UNCHANGED amVars
  /\ UNCHANGED <<storeVars, repoVars, outVars, pc, result, loopVars, histVars>>

NextStore ==
  \/ \E v \in CursorValues, env \in WriteEnv, cut \in 0..MaxCut : StoreWrite(v, env, cut)
  \/ StoreRead

SpecStore == Init /\ [][NextStore]_vars

(* --------------- discovery used directly by a caller ----------------- *)
\* the since_ref values a caller can pass: none, a blank one, and the
\* hash of any commit the branch can hold
SinceRefs == {None, Some(<<" ">>)} \cup {Some(Hash(i)) : i \in 1..MaxCommits}

\* get_internal_commits_since called with an arbitrary since_ref
Discover(since_ref, fetchOk, logOk) ==
  /\ LET d == get_internal_commits_since(remote, tracking, since_ref, fetchOk, logOk) IN
     /\ tracking' = d.tracking
     /\ libLast' = Call("discover", since_ref, d.ok, d.commits, fetchOk)
  /\ libPrev' = libLast /\ UNCHANGED amVars
  /\ UNCHANGED <<storeVars, remote, outVars, pc, result, loopVars, histVars>>

\* a push to the internal remote branch between two library calls
LibPush(kind) ==
  /\ Len(remote) < MaxCommits
  /\ remote' = Append(remote, kind)
  /\ libLast' = Call("push", None, TRUE, <<>>, FALSE)
  /\ libPrev' = libLast /\ UNCHANGED amVars
  /\ UNCHANGED <<storeVars, tracking, outVars, pc, result, loopVars, histVars>>

NextDiscovery ==
  \/ \E since_ref \in SinceRefs, fetchOk \in BOOLEAN, logOk \in BOOLEAN :
        Discover(since_ref, fetchOk, logOk)
  \/ \E kind \in CommitKinds : LibPush(kind)

SpecDiscovery == Init /\ [][NextDiscovery]_vars

\* lines git log can print: two well-formed ones (the second with a blank at
\* the end of its subject), one whose subject holds a second NUL, one
\* without NUL and an empty one
LineForms ==
  {Hash(1) \o <<NUL>> \o Subject(1), Hash(2) \o <<NUL, "s", " ">>,
   Hash(3) \o <<NUL, "s", NUL, "t">>, <<"x">>, <<>>}

RECURSIVE LinesUpTo(_)
LinesUpTo(n) ==
  IF n = 0 THEN {<<>>}
  ELSE LET shorter == LinesUpTo(n - 1) IN
       shorter \cup {Append(ls, l) : ls \in {x \in shorter : Len(x) = n - 1}, l \in LineForms}

\* git log has printed the lines ls on its stdout
GitLogPrints(ls) ==
  /\ libLast' = Call("log", ls, TRUE, JoinLines(ls), FALSE)
  /\ libPrev' = NoCall /\ UNCHANGED amVars
  /\ UNCHANGED <<storeVars, repoVars, outVars, pc, result, loopVars, histVars>>

\* the loop of get_internal_commits_since over that stdout
ParseLog ==
  /\ libLast.op = "log"
  /\ libLast' = Call("parse", libLast.arg, TRUE, parse_log(libLast.value), FALSE)
  /\ libPrev' = libLast /\ UNCHANGED amVars
  /\ UNCHANGED <<storeVars, repoVars, outVars, pc, result, loopVars, histVars>>

NextParse ==
  \/ \E ls \in LinesUpTo(MaxLines) : GitLogPrints(ls)
  \/ ParseLog

SpecParse == Init /\ [][NextParse]_vars

(* ------------------ a run after a run that halted --------------------- *)
\* the last apply of the last run returned Conflict
ConflictHalted ==
  applyLog # <<>> /\ applyLog[Len(applyLog)].result = "Conflict"

\* the commit that apply was called for
ConflictCommit == applyLog[Len(applyLog)].hash

\* the operator resolves the conflict in the output repository and runs
\* git am --continue: the paused patch becomes a commit
OperatorContinue ==
  /\ pc = "returned" /\ amPaused /\ ConflictHalted
  /\ output' = Append(output, ConflictCommit) /\ amPaused' = FALSE
  /\ UNCHANGED <<storeVars, repoVars, pc, result, loopVars, histVars, libVars>>

\* the operator runs git am --abort there
OperatorAbort ==
  /\ pc = "returned" /\ amPaused
  /\ amPaused' = FALSE
  /\ UNCHANGED <<storeVars, repoVars, output, pc, result, loopVars, histVars, libVars>>

\* the operator re-runs the update after a run that halted on a Conflict
ResumeRun(fetchOk, logOk) ==
  /\ runs = MaxRuns /\ pc = "returned" /\ ConflictHalted
  /\ StartRunBody(fetchOk, logOk)

NextResume ==
  \/ Next
  \/ OperatorContinue
  \/ OperatorAbort
  \/ \E fetchOk \in BOOLEAN, logOk \in BOOLEAN : ResumeRun(fetchOk, logOk)

SpecResume == Init /\ [][NextResume]_vars

(* ------- apply_commit_to_output: the writer thread and the wait -------- *)
\* what the remaining actions leave alone
AmFrame == UNCHANGED <<storeVars, repoVars, outVars, pc, result, loopVars, histVars,
                       libPrev, libLast>>

\* git am is spawned with its three pipes and the writer thread is started
\* on a patch of n bytes; git am will print up to m bytes
AmSpawn(n, m) ==
  /\ waiterPc = "idle"
  /\ patchLeft' = n /\ outLeft' = m /\ stdinPipe' = 0 /\ stdoutPipe' = 0
  /\ writerPc' = "run" /\ childPc' = "think" /\ waiterPc' = "wait"
  /\ UNCHANGED <<childEof, exitStatus, amReturn>>
  /\ AmFrame

\* write_all moves a byte into the pipe, blocking while the pipe is full
WriterWrite ==
  /\ writerPc = "run" /\ patchLeft > 0 /\ childPc # "exited"
  /\ stdinPipe < PipeCap
  /\ patchLeft' = patchLeft - 1 /\ stdinPipe' = stdinPipe + 1
  /\ UNCHANGED <<outLeft, stdoutPipe, writerPc, childPc, childEof, exitStatus,
                 waiterPc, amReturn>>
  /\ AmFrame

\* write_all fails because git am is gone; the closure returns the error
\* and drops child_stdin
WriterBrokenPipe ==
  /\ writerPc = "run" /\ patchLeft > 0 /\ childPc = "exited"
  /\ writerPc' = "err"
  /\ UNCHANGED <<patchLeft, stdinPipe, outLeft, stdoutPipe, childPc, childEof,
                 exitStatus, waiterPc, amReturn>>
  /\ AmFrame

\* write_all has written everything; the closure returns Ok and drops
\* child_stdin, which closes the pipe
WriterReturn ==
  /\ writerPc = "run" /\ patchLeft = 0
  /\ writerPc' = "ok"
  /\ UNCHANGED <<patchLeft, stdinPipe, outLeft, stdoutPipe, childPc, childEof,
                 exitStatus, waiterPc, amReturn>>
  /\ AmFrame

\* the write fails for another reason, or the thread panics
WriterFault(how) ==
  /\ writerPc = "run"
  /\ writerPc' = how
  /\ UNCHANGED <<patchLeft, stdinPipe, outLeft, stdoutPipe, childPc, childEof,
                 exitStatus, waiterPc, amReturn>>
  /\ AmFrame

\* git am goes on to read its input or to print
ChildChoose(what) ==
  /\ childPc = "think"
  /\ what = "read" => ~childEof
  /\ what = "print" => outLeft > 0
  /\ childPc' = what
  /\ UNCHANGED <<patchLeft, stdinPipe, outLeft, stdoutPipe, writerPc, childEof,
                 exitStatus, waiterPc, amReturn>>
  /\ AmFrame

\* its read returns a byte
ChildRead ==
  /\ childPc = "read" /\ stdinPipe > 0
  /\ stdinPipe' = stdinPipe - 1 /\ childPc' = "think"
  /\ UNCHANGED <<patchLeft, outLeft, stdoutPipe, writerPc, childEof, exitStatus,
                 waiterPc, amReturn>>
  /\ AmFrame

\* its read returns the end of the input: the pipe is empty and closed
ChildReadEof ==
  /\ childPc = "read" /\ stdinPipe = 0 /\ writerPc \in {"ok", "err", "panic"}
  /\ childEof' = TRUE /\ childPc' = "think"
  /\ UNCHANGED <<patchLeft, stdinPipe, outLeft, stdoutPipe, writerPc, exitStatus,
                 waiterPc, amReturn>>
  /\ AmFrame

\* its write puts a byte into the output pipe, blocking while the pipe is full
ChildPrint ==
  /\ childPc = "print" /\ stdoutPipe < PipeCap
  /\ outLeft' = outLeft - 1 /\ stdoutPipe' = stdoutPipe + 1 /\ childPc' = "think"
  /\ UNCHANGED <<patchLeft, stdinPipe, writerPc, childEof, exitStatus, waiterPc,
                 amReturn>>
  /\ AmFrame

\* git am exits, which closes its ends of the pipes
ChildExit(exit, marker) ==
  /\ childPc = "think"
  /\ childPc' = "exited" /\ exitStatus' = [exit |-> exit, marker |-> marker]
  /\ UNCHANGED <<patchLeft, stdinPipe, outLeft, stdoutPipe, writerPc, childEof,
                 waiterPc, amReturn>>
  /\ AmFrame

\* mutant of WaitDrain: the output is read only once git am has exited
WaitDrain_AfterExit ==
  /\ waiterPc = "wait" /\ stdoutPipe > 0 /\ childPc = "exited"
  /\ stdoutPipe' = stdoutPipe - 1
  /\ UNCHANGED <<patchLeft, stdinPipe, outLeft, writerPc, childPc, childEof,
                 exitStatus, waiterPc, amReturn>>
  /\ AmFrame

\* wait_with_output reads what git am prints while it waits for it
WaitDrain ==
  /\ waiterPc = "wait" /\ stdoutPipe > 0
  /\ stdoutPipe' = stdoutPipe - 1
  /\ UNCHANGED <<patchLeft, stdinPipe, outLeft, writerPc, childPc, childEof,
                 exitStatus, waiterPc, amReturn>>
  /\ AmFrame

\* wait_with_output returns: the output is read to its end and git am has
\* exited
WaitReturns ==
  /\ waiterPc = "wait" /\ childPc = "exited" /\ stdoutPipe = 0
  /\ waiterPc' = "join"
  /\ UNCHANGED <<patchLeft, stdinPipe, outLeft, stdoutPipe, writerPc, childPc,
                 childEof, exitStatus, amReturn>>
  /\ AmFrame

\* the tool environment of a call whose git am ran to its exit
AmEnv(wait, write) ==
  [patch |-> "bytes", spawn |-> TRUE, wait |-> wait, write |-> write,
   exit |-> exitStatus.exit, marker |-> exitStatus.marker, stderr |-> "",
   abort |-> TRUE]

\* wait_with_output fails: its error is returned at once
WaitFault ==
  /\ waiterPc = "wait"
  /\ waiterPc' = "done" /\ amReturn' = Some(apply_commit_to_output(AmEnv(FALSE, "ok"), FALSE))
  /\ UNCHANGED <<patchLeft, stdinPipe, outLeft, stdoutPipe, writerPc, childPc,
                 childEof, exitStatus>>
  /\ AmFrame

\* write_handle.join() returns once the writer thread has ended; the call
\* returns the writer's error or classifies the exit of git am
Join ==
  /\ waiterPc = "join" /\ writerPc \in {"ok", "err", "panic"}
  /\ waiterPc' = "done" /\ amReturn' = Some(apply_commit_to_output(AmEnv(TRUE, writerPc), FALSE))
  /\ UNCHANGED <<patchLeft, stdinPipe, outLeft, stdoutPipe, writerPc, childPc,
                 childEof, exitStatus>>
  /\ AmFrame

ExitStatuses == {<<"success", FALSE>>, <<"fail", FALSE>>, <<"fail", TRUE>>}

\* the steps of the three parties that are no faults of the environment
AmProgress ==
  \/ WriterWrite \/ WriterBrokenPipe \/ WriterReturn
  \/ \E what \in {"read", "print"} : ChildChoose(what)
  \/ ChildRead \/ ChildReadEof \/ ChildPrint
  \/ \E x \in ExitStatuses : ChildExit(x[1], x[2])
  \/ WaitDrain \/ WaitReturns \/ Join

NextAm ==
  \/ \E n \in 1..MaxPatch, m \in 0..MaxOut : AmSpawn(n, m)
  \/ AmProgress
  \/ \E how \in {"err", "panic"} : WriterFault(how)
  \/ WaitFault

SpecAm == Init /\ [][NextAm]_vars

(* ============================ properties ============================== *)
\* position of a commit in the internal history, 0 for an unknown hash
Pos(h) == Resolve(h, Len(remote))

\* the cursor a reader of the record gets
PersistedCursor == read_last_synced_commit(stateFile).value

\* strings that are empty or whitespace only
Blank(s) == trim(s) = <<>>

\* the three ways a record holds no cursor: no file, an empty file, a
\* record with a blank identifier
CursorAbsent(file) ==
  \/ ~file.exists
  \/ trim(file.content) = <<>>
  \/ \E s \in StringsUpTo(MaxLen) :
        Blank(s) /\ file.content = toml_to_string_pretty(Some(s))

\* the current run got a non-empty queue from discovery
RunInLoop == discovered # <<>>

\* the post-loop write of the current run returned Ok
WriteOk == pc = "confirm" \/ (pc = "returned" /\ result \in {"Ok", "Err_confirm"})

\* positions in applyLog of the applies that returned Success
SuccessIdx == {i \in 1..Len(applyLog) : applyLog[i].result = "Success"}

\* positions in applyLog of the applies that returned Conflict or Failure
HaltIdx == {i \in 1..Len(applyLog) : applyLog[i].result \in {"Conflict", "Failure"}}

\* hashes of the applies for which git am was started, in order
RECURSIVE InvokedHashes(_)
InvokedHashes(log) ==
  IF log = <<>> THEN <<>>
  ELSE (IF Head(log).invoked THEN <<Head(log).hash>> ELSE <<>>) \o InvokedHashes(Tail(log))

\* the queue the next discovery returns from the persisted cursor
Rediscover(fetchOk) ==
  get_internal_commits_since(remote, tracking, PersistedCursor, fetchOk, TRUE)

IsPrefix(s, t) == Len(s) <= Len(t) /\ SubSeq(t, 1, Len(s)) = s

\* every answer of the run was one of the five choices of the Select
\* prompt (no diff failed) and every apply ran git am on a non-empty patch
PlainRun ==
  /\ choices \subseteq {"Apply", "Skip", "Defer", "ApplyAll", "Quit"}
  /\ \A i \in 1..Len(applyLog) : applyLog[i].invoked

(* ------------------------------- C1 ----------------------------------- *)
\* C1: during a run successfully_applied_commit is the cursor read at the
\* start or the hash of a commit whose apply returned Success in this run;
\* the value handed to the post-loop write is that variable, so it is never
\* the hash of a commit whose apply returned Conflict, Failure or an error,
\* nor of a discovered commit that was skipped, deferred or not processed.
C1_LastAppliedIsCursorOrSuccess ==
  RunInLoop =>
    /\ \/ successfully_applied_commit = last_synced_ref
       \/ \E i \in SuccessIdx : successfully_applied_commit = Some(applyLog[i].hash)
    /\ writes > 0 =>
         /\ written = successfully_applied_commit
         /\ \A i \in 1..Len(applyLog) :
              applyLog[i].result # "Success" => written # Some(applyLog[i].hash)
         /\ \A k \in 1..Len(discovered) :
              written = Some(discovered[k].hash) =>
                \E i \in SuccessIdx : applyLog[i].hash = discovered[k].hash

\* the write got the commit that succeeded, not the one that conflicted
C1_Witness ==
  /\ writes = 1 /\ Len(applyLog) = 2
  /\ applyLog[1].result = "Success" /\ applyLog[2].result = "Conflict"
  /\ written = Some(applyLog[1].hash)

(* ------------------------------- C2 ----------------------------------- *)
\* C2 as stated: for every sequence of Apply, Skip, Defer, Apply all and
\* Quit answers, the commits that received Success did so in oldest-first
\* order (the last applied commit only moves forward), and while the
\* review goes on no commit older than the last applied one waits in the
\* queue.
C2_ForwardOnlyNothingOlderPending ==
  (RunInLoop /\ PlainRun) =>
    /\ \A i, j \in SuccessIdx :
         i < j => Pos(applyLog[i].hash) < Pos(applyLog[j].hash)
    /\ (pc = "review" /\ successfully_applied_commit # last_synced_ref) =>
         \A k \in 1..Len(commits_to_review) :
           Pos(commits_to_review[k].hash) > Pos(successfully_applied_commit[1])

(* ------------------------------- C3 ----------------------------------- *)
\* C3 as stated: once the post-loop write returned, the persisted cursor
\* is the pre-run cursor when no apply returned Success, otherwise the
\* newest commit in history order among those with Success, and it does
\* not lie after a commit that ended in Conflict or Failure.
C3_CursorIsNewestSuccess ==
  (RunInLoop /\ PlainRun /\ WriteOk) =>
    /\ SuccessIdx = {} => PersistedCursor = last_synced_ref
    /\ SuccessIdx # {} =>
         \E i \in SuccessIdx :
           /\ PersistedCursor = Some(applyLog[i].hash)
           /\ \A j \in SuccessIdx : Pos(applyLog[j].hash) <= Pos(applyLog[i].hash)
    /\ \A i \in HaltIdx :
         PersistedCursor # None /\ Pos(PersistedCursor[1]) < Pos(applyLog[i].hash)

(* ------------------------------- C4 ----------------------------------- *)
\* C4: when every commit of the queue was answered with Apply (or applied
\* in Apply All mode) and every apply returned Success, then, once the
\* post-loop write returned, apply_commit_to_output was called exactly once
\* per discovered commit in discovery order, that order is oldest first,
\* the output repository got the applied patches appended in that order,
\* and the persisted cursor is the newest discovered commit.
C4_AllAppliedInOrder ==
  ( /\ RunInLoop /\ WriteOk
    /\ choices \subseteq {"Apply", "ApplyAll"}
    /\ \A i \in 1..Len(applyLog) : applyLog[i].result = "Success" ) =>
    /\ Len(applyLog) = Len(discovered)
    /\ \A i \in 1..Len(applyLog) : applyLog[i].hash = discovered[i].hash
    /\ \A i, j \in 1..Len(discovered) :
         i < j => Pos(discovered[i].hash) < Pos(discovered[j].hash)
    /\ output = outputPreRun \o InvokedHashes(applyLog)
    /\ PersistedCursor = Some(discovered[Len(discovered)].hash)

\* two commits applied with Apply, both in the output repository
C4_Witness ==
  /\ WriteOk /\ choices = {"Apply"}
  /\ Len(discovered) = 2 /\ Len(applyLog) = 2
  /\ \A i \in 1..2 : applyLog[i].result = "Success" /\ applyLog[i].invoked
  /\ output = outputPreRun \o <<discovered[1].hash, discovered[2].hash>>

(* ------------------------------- C5 ----------------------------------- *)
\* the loop of the current run was ended by a Conflict or a Failure
Halted == RunInLoop /\ HaltIdx # {}

\* C5: an apply that returns Conflict or Failure is the last apply of the
\* run: the loop is left with user_quit set, the commits still queued are
\* neither applied nor skipped and stay as they are, and once the post-loop
\* write returned the persisted cursor is the last commit that got Success
\* before it (the pre-run cursor if none).  When the first discovered
\* commit succeeded and the second halted the run, the cursor is the first
\* and the next discovery starts with the second and all later ones.
C5_HaltOnConflictOrFailure ==
  /\ [](RunInLoop =>
         \A k \in HaltIdx :
           /\ k = Len(applyLog)
           /\ pc \in {"postloop", "confirm", "returned"} /\ user_quit
           /\ \A q \in 1..Len(commits_to_review) :
                /\ \A i \in 1..Len(applyLog) :
                     applyLog[i].hash # commits_to_review[q].hash
                /\ \A i \in 1..Len(skipped_commits) :
                     skipped_commits[i] # commits_to_review[q]
           /\ WriteOk =>
                PersistedCursor =
                  IF SuccessIdx = {} THEN last_synced_ref
                  ELSE Some(applyLog[CHOOSE i \in SuccessIdx :
                                       \A j \in SuccessIdx : j <= i].hash)
           /\ ( /\ pc = "confirm" /\ k = 2 /\ applyLog[1].result = "Success"
                /\ applyLog[1].hash = discovered[1].hash
                /\ applyLog[2].hash = discovered[2].hash ) =>
                /\ PersistedCursor = Some(discovered[1].hash)
                /\ \A fetchOk \in BOOLEAN :
                     /\ Rediscover(fetchOk).ok
                     /\ IsPrefix(Tail(discovered), Rediscover(fetchOk).commits))
  /\ [][(Halted /\ pc \in {"postloop", "confirm"}) =>
          /\ applyLog' = applyLog /\ output' = output
          /\ commits_to_review' = commits_to_review
          /\ skipped_commits' = skipped_commits]_vars

\* Apply All mode stopped by a Failure after one Success
C5_Witness ==
  /\ pc = "confirm" /\ apply_all_mode /\ user_quit
  /\ Len(applyLog) = 2
  /\ applyLog[1].result = "Success" /\ applyLog[2].result = "Failure"
  /\ PersistedCursor = Some(discovered[1].hash)

(* ------------------------------- C6 ----------------------------------- *)
\* C6 as stated: once the post-loop write returned, every commit of the
\* skip list is returned again by the next discovery, which starts from the
\* persisted cursor.
C6_SkippedRediscovered ==
  (RunInLoop /\ PlainRun /\ pc = "confirm") =>
    \A k \in 1..Len(skipped_commits), fetchOk \in BOOLEAN :
      /\ Rediscover(fetchOk).ok
      /\ \E m \in 1..Len(Rediscover(fetchOk).commits) :
           Rediscover(fetchOk).commits[m] = skipped_commits[k]

(* ------------------------------- C7 ----------------------------------- *)
\* C7: a run that left the review loop has called the cursor write exactly
\* once, with successfully_applied_commit, before the commit of the record
\* is offered, and not at all while the loop runs; a write that returned
\* Ok left exactly that value in the record.  Answering the offer with no,
\* or a commit that fails, ends the run with Ok and changes neither the
\* record on disk nor the output repository.
C7_WriteOnceThenOffer ==
  /\ [](RunInLoop =>
         /\ pc \in {"review", "postloop"} => writes = 0
         /\ (pc = "confirm" \/ (pc = "returned" /\ result \in {"Ok", "Err_confirm", "Err_write"})) =>
              writes = 1 /\ written = successfully_applied_commit
         /\ WriteOk => stateFile = FileWith(toml_to_string_pretty(successfully_applied_commit)))
  /\ [][(\E answer \in {"yes", "no"}, env \in CommitEnv : CommitOffer(answer, env)) =>
          /\ result' = "Ok"
          /\ stateFile' = stateFile /\ output' = output /\ amPaused' = amPaused
          /\ writes' = writes]_vars

\* a run stopped by the operator after one applied commit wrote the cursor
\* once, the offer was declined, the record was left uncommitted and the
\* run returned Ok
C7_Witness ==
  /\ pc = "returned" /\ result = "Ok" /\ RunInLoop
  /\ writes = 1 /\ Len(applyLog) = 1 /\ written = Some(applyLog[1].hash)
  /\ "Quit" \in choices /\ offered = "no"
  /\ stateFile # headFile /\ stateCommits = <<>>

(* ------------------------------- C8 ----------------------------------- *)
\* C8: with an absent cursor (no record, empty record, blank identifier)
\* discovery returns an error and no queue, whatever fetch and log do, and
\* an update run started on such a record returns "missing sync state"
\* before the review loop: nothing was applied, the cursor was not
\* written, and record and output repository are as they were.
C8_AbsentCursorIsError ==
  /\ \A fetchOk \in BOOLEAN, logOk \in BOOLEAN :
       LET d == get_internal_commits_since(remote, tracking, None, fetchOk, logOk) IN
       ~d.ok /\ d.commits = <<>>
  /\ (runs > 0 /\ CursorAbsent(filePreRun)) =>
       /\ pc = "returned" /\ result = "Err_nostate"
       /\ discovered = <<>> /\ commits_to_review = <<>>
       /\ applyLog = <<>> /\ writes = 0
       /\ stateFile = filePreRun /\ output = outputPreRun

\* a run on a record with a blank identifier has returned the error
C8_Witness ==
  /\ pc = "returned" /\ result = "Err_nostate"
  /\ filePreRun = FileWith(toml_to_string_pretty(Some(<<" ">>)))
  /\ Len(remote) > 1

(* ------------------------------- C9 ----------------------------------- *)
\* C9 as stated: a successful write(v) immediately followed by read()
\* returns v, for every cursor value v, blank identifiers included.
C9_RoundTripEveryValue ==
  (libLast.op = "read" /\ libPrev.op = "write" /\ libPrev.ok) =>
    (libLast.ok /\ libLast.value = libPrev.arg)

\* C9 amended: a successful write(v) immediately followed by read()
\* returns v when v is None or Some(identifier) with an identifier that is
\* not blank, and returns None when the identifier is empty or whitespace
\* only.
C9_RoundTripNonBlank ==
  (libLast.op = "read" /\ libPrev.op = "write" /\ libPrev.ok) =>
    /\ libLast.ok
    /\ libLast.value =
         IF libPrev.arg # None /\ Blank(libPrev.arg[1]) THEN None ELSE libPrev.arg

\* an identifier with a quote and a leading blank came back unchanged
C9_Witness ==
  /\ libLast.op = "read" /\ libPrev.op = "write" /\ libPrev.ok
  /\ libPrev.arg = Some(<<" ", "\"">>)
  /\ libLast.value = libPrev.arg

(* ------------------------------- C10 ---------------------------------- *)
TwoDiscoveries ==
  /\ libLast.op = "discover" /\ libPrev.op = "discover"
  /\ libLast.arg = libPrev.arg
  /\ libLast.ok /\ libPrev.ok

\* C10 as stated: two consecutive discoveries from the same cursor with no
\* push in between return the same queue.
C10_SameQueueTwice ==
  TwoDiscoveries => libLast.value = libPrev.value

\* C10 amended: discovery changes neither the cursor record nor the
\* commits of the remote branch; two consecutive discoveries from the same
\* cursor with no push in between return the same queue unless the fetch
\* of the first failed and the fetch of the second succeeded; and a
\* discovery whose cursor is the tip of the remote-tracking branch after
\* its fetch returns the empty queue.
C10_IdempotentAfterFetch ==
  /\ [](/\ (TwoDiscoveries /\ (libPrev.fetched \/ ~libLast.fetched)) =>
            libLast.value = libPrev.value
        /\ (libLast.op = "discover" /\ libLast.ok
            /\ libLast.arg = Some(Hash(tracking))) => libLast.value = <<>>)
  /\ [][(\E since_ref \in SinceRefs, fetchOk \in BOOLEAN, logOk \in BOOLEAN :
           Discover(since_ref, fetchOk, logOk))
        => (stateFile' = stateFile /\ remote' = remote)]_vars

\* a second discovery returned the same non-empty queue as the first
C10_Witness ==
  /\ TwoDiscoveries /\ libPrev.fetched
  /\ libLast.value = libPrev.value /\ Len(libLast.value) = 2

(* ------------------------------- C11 ---------------------------------- *)
\* the last apply of the run found an empty patch
LastApplyEmpty ==
  /\ applyLog # <<>>
  /\ applyLog[Len(applyLog)].result = "Success"
  /\ ~applyLog[Len(applyLog)].invoked

\* C11: an apply whose format-patch output is empty returns Success
\* without starting git am: the output repository gets no commit and no
\* open apply session, and the loop sets successfully_applied_commit to
\* that commit.  Once the post-loop write returned, a run whose last apply
\* was such a no-op has persisted that commit as the cursor, and the next
\* discovery no longer returns it.
C11_EmptyPatchIsNoopSuccess ==
  /\ [][applyLog' # applyLog => \A e \in ApplyEnv :
          (e.patch = "empty" /\ ReviewApply(e)) =>
            /\ apply_commit_to_output(e, amPaused).ok
            /\ apply_commit_to_output(e, amPaused).result = "Success"
            /\ ~apply_commit_to_output(e, amPaused).invoked
            /\ output' = output /\ amPaused' = amPaused
            /\ successfully_applied_commit' = Some(Head(commits_to_review).hash)
            /\ applyLog' = Append(applyLog, [hash |-> Head(commits_to_review).hash,
                                             result |-> "Success", invoked |-> FALSE,
                                             aborted |-> FALSE])]_vars
  /\ []((RunInLoop /\ WriteOk /\ LastApplyEmpty) =>
          /\ PersistedCursor = Some(applyLog[Len(applyLog)].hash)
          /\ \A fetchOk \in BOOLEAN :
               \A m \in 1..Len(Rediscover(fetchOk).commits) :
                 Rediscover(fetchOk).commits[m].hash # applyLog[Len(applyLog)].hash)

\* the only apply of the run was a no-op Success and the cursor moved to
\* its commit while the output repository stayed as it was
C11_Witness ==
  /\ RunInLoop /\ WriteOk /\ LastApplyEmpty
  /\ Len(applyLog) = 1 /\ output = outputPreRun /\ ~amPaused
  /\ PersistedCursor = Some(applyLog[1].hash)
  /\ PersistedCursor # last_synced_ref

(* ------------------------------- C12 ---------------------------------- *)
\* the post-loop write of the current run returned an error
WriteFailed == pc = "returned" /\ result = "Err_write"

\* C12: when create_dir_all, File::create or write_all fails,
\* write_last_synced_commit returns an error; the post-loop step of the run
\* then returns that error without touching the index or the history of
\* the internal repository, and the offer to commit the record is not made:
\* the offer only follows a write that returned Ok.
C12_WriteFailureReturned ==
  /\ [][pc = "postloop" => \A env \in WriteEnv, cut \in 0..MaxCut :
          PostLoop(env, cut) =>
            LET w == write_last_synced_commit(stateFile, successfully_applied_commit,
                                              env, cut) IN
            /\ env # "ok" => ~w.ok
            /\ ~w.ok => /\ pc' = "returned" /\ result' = "Err_write"
                        /\ UNCHANGED <<indexFile, headFile, stateCommits>>
            /\ w.ok => pc' = "confirm" /\ stateFile' = w.file]_vars
  /\ [](WriteFailed =>
          /\ writes = 1
          /\ ~ENABLED (\E answer \in Answers, env \in CommitEnv : CommitOffer(answer, env)))
  /\ [][(\E answer \in Answers, env \in CommitEnv : CommitOffer(answer, env)) =>
          /\ writes = 1
          /\ stateFile = FileWith(toml_to_string_pretty(written))]_vars

\* write_all failed after a commit was applied: the run returned the
\* error, the record holds a truncated text and nothing was committed
C12_Witness ==
  /\ WriteFailed /\ RunInLoop /\ SuccessIdx # {}
  /\ stateFile.exists
  /\ stateFile.content # toml_to_string_pretty(written)
  /\ stateFile # filePreRun
  /\ stateCommits = <<>>

(* ------------------------------- C13 ---------------------------------- *)
\* git am ran to its end and the writer thread delivered the patch
AmFinished(e) ==
  e.patch = "bytes" /\ e.spawn /\ e.wait /\ e.write = "ok"

\* C13: a git am that did not exit cleanly is a Conflict exactly when its
\* output carries a conflict marker and a Failure otherwise.  git am
\* --abort runs if and only if the outcome is Failure: not on Success, not
\* on Conflict, whose open session stays in the output repository, and not
\* when the call returns an error.  Whether the abort succeeds or not, the
\* call returns Failure with the stderr text.
C13_ConflictByMarkerAbortOnlyOnFailure ==
  /\ [][applyLog' # applyLog => \A e \in ApplyEnv :
          ReviewApply(e) =>
            LET r == apply_commit_to_output(e, amPaused) IN
            /\ AmFinished(e) =>
                 /\ r.ok
                 /\ e.exit = "success" => r.result = "Success"
                 /\ e.exit = "fail" =>
                      /\ r.result = "Conflict" <=> e.marker
                      /\ r.result = "Failure" <=> ~e.marker
                 /\ r.result = "Conflict" => amPaused' /\ output' = output
                 /\ r.result = "Failure" =>
                      /\ r.text = e.stderr /\ output' = output
                      /\ e.abort => ~amPaused'
                      /\ ~e.abort => amPaused' = amPaused
                 /\ r.result = "Success" => amPaused' = amPaused
            /\ r.aborted <=> (r.ok /\ r.result = "Failure")
            /\ applyLog'[Len(applyLog')].result = r.result
            /\ applyLog'[Len(applyLog')].aborted = r.aborted]_vars
  /\ [](\A i \in 1..Len(applyLog) :
          applyLog[i].aborted <=> applyLog[i].result = "Failure")

\* after one commit was applied the next apply ended in Failure: git am
\* --abort ran, no session is open and the loop was left
C13_Witness ==
  /\ Len(applyLog) = 2 /\ ~amPaused /\ user_quit
  /\ applyLog[1].result = "Success" /\ ~applyLog[1].aborted
  /\ applyLog[2].result = "Failure" /\ applyLog[2].aborted
  /\ output = outputPreRun \o <<applyLog[1].hash>>

(* ------------------------------- C14 ---------------------------------- *)
\* what git status --porcelain reports as clean: working copy, index and
\* history hold the same record
RecordUnchanged == stateFile = indexFile /\ indexFile = headFile

\* C14: one call of commit_state_file_change adds at most one commit to the
\* internal repository, and a commit it adds holds the record on disk and
\* names the cursor in its message.  When the record is unchanged the call
\* adds no commit and stages nothing, and it returns Ok whenever the status
\* query itself ran.  The call never changes the record on disk.
C14_CommitAtMostOnceNoneWhenUnchanged ==
  [][pc = "confirm" => \A env \in CommitEnv :
       CommitOffer("yes", env) =>
         LET c == commit_state_file_change(stateFile, indexFile, headFile, env) IN
         /\ stateFile' = stateFile
         /\ \/ stateCommits' = stateCommits
            \/ /\ stateCommits' = Append(stateCommits, successfully_applied_commit)
               /\ headFile' = stateFile /\ indexFile' = stateFile
               /\ ~RecordUnchanged
         /\ RecordUnchanged =>
              /\ stateCommits' = stateCommits
              /\ indexFile' = indexFile /\ headFile' = headFile
              /\ c.created = 0
              /\ env # "err_status" => c.ok]_vars

\* the operator quit without applying and accepted the offer: the record
\* was rewritten with the same cursor and no commit was made
C14_Witness ==
  /\ pc = "returned" /\ result = "Ok" /\ offered = "yes"
  /\ RunInLoop /\ writes = 1
  /\ RecordUnchanged /\ stateFile = filePreRun
  /\ stateCommits = <<>>

(* ------------------------------- C15 ---------------------------------- *)
\* the current run returned Ok from the "up to date" branch
UpToDate == pc = "returned" /\ result = "Ok_uptodate"

\* C15: a run whose discovery returns Ok with an empty queue returns Ok
\* ("up to date") in that same step; it asked the operator nothing, applied
\* nothing, did not write the record and did not offer to commit it, and
\* the record (on disk, staged and committed) and the output repository
\* are as they were when the run started.
C15_EmptyQueueIsUpToDate ==
  /\ [][runs' # runs => \A fetchOk \in BOOLEAN, logOk \in BOOLEAN :
          StartRun(fetchOk, logOk) =>
            LET rd == read_last_synced_commit(stateFile)
                d  == get_internal_commits_since(remote, tracking, rd.value, fetchOk, logOk)
            IN  (rd.ok /\ rd.value # None /\ d.ok) =>
                  /\ (d.commits = <<>>) <=> (pc' = "returned" /\ result' = "Ok_uptodate")
                  /\ (d.commits = <<>>) =>
                       /\ UNCHANGED <<storeVars, outVars>>
                       /\ commits_to_review' = <<>>]_vars
  /\ [](UpToDate =>
          /\ discovered = <<>> /\ commits_to_review = <<>>
          /\ choices = {} /\ defers = 0 /\ skipped_commits = <<>>
          /\ applyLog = <<>> /\ writes = 0 /\ offered = "none"
          /\ stateFile = filePreRun /\ output = outputPreRun)

\* the one commit pushed since the cursor touches other paths only: the
\* fetch brought it in, the queue was empty and the run changed nothing
C15_Witness ==
  /\ UpToDate /\ runs = 1
  /\ remote = <<"sub", "other">> /\ tracking = 2
  /\ PersistedCursor = Some(Hash(1))
  /\ stateFile = filePreRun /\ output = outputPreRun

(* ------------------------------- C16 ---------------------------------- *)
\* the commits of a sequence of CommitInfo as a set
Range(q) == {q[i] : i \in 1..Len(q)}

\* C16: "No (skip always)" on the commit at the front of the queue appends
\* it to skipped_commits, where it was not before, and takes it out of the
\* queue; successfully_applied_commit, the output repository and the
\* cursor record stay as they are, apply_commit_to_output is not called,
\* and the loop goes on with the next entry or ends on an empty queue.
\* Within a run the skip list only grows, by a Skip or a confirmed skip
\* after a failed diff, so at the end it lists the skipped commits in the
\* order they were skipped: each one once, each one discovered in this run,
\* none applied and none still queued.
C16_SkipRecordsOnceAndMovesOn ==
  /\ [][ReviewSkip =>
          LET c == Head(commits_to_review) IN
          /\ c \notin Range(skipped_commits)
          /\ skipped_commits' = Append(skipped_commits, c)
          /\ commits_to_review' = Tail(commits_to_review)
          /\ c \notin Range(commits_to_review')
          /\ UNCHANGED <<successfully_applied_commit, outVars, storeVars, applyLog,
                         user_quit, apply_all_mode>>
          /\ pc' = IF Tail(commits_to_review) = <<>> THEN "postloop" ELSE "review"]_vars
  /\ [][skipped_commits' # skipped_commits =>
          \/ ReviewSkip
          \/ ReviewDiffError("yes")
          \/ \E fetchOk \in BOOLEAN, logOk \in BOOLEAN : StartRun(fetchOk, logOk)]_vars
  /\ [](/\ \A i, j \in 1..Len(skipped_commits) :
             i # j => skipped_commits[i] # skipped_commits[j]
        /\ Range(skipped_commits) \subseteq Range(discovered)
        /\ Range(skipped_commits) \cap Range(commits_to_review) = {}
        /\ \A i \in 1..Len(applyLog), k \in 1..Len(skipped_commits) :
             applyLog[i].hash # skipped_commits[k].hash)

\* the older commit was put off and then both were skipped: the skip list
\* holds the newer one first, nothing was applied and the cursor is where
\* it was
C16_Witness ==
  /\ pc = "confirm" /\ choices = {"Defer", "Skip"}
  /\ Len(discovered) = 2
  /\ skipped_commits = <<discovered[2], discovered[1]>>
  /\ applyLog = <<>> /\ output = outputPreRun
  /\ successfully_applied_commit = last_synced_ref

(* ------------------------------- C17 ---------------------------------- *)
\* C17: "Skip for now" moves the commit at the front of the queue to the
\* back: the queue keeps its length and the order of the other commits,
\* and successfully_applied_commit, the skip list, the output repository,
\* the cursor record and the flags of the loop stay as they are; nothing
\* is applied and the loop goes on.  Every other step of the loop takes
\* the commit it handles from the front: it leaves the queue without its
\* first entry or, for "Apply ALL remaining", as it was, and a commit that
\* is applied or skipped is the one that was at the front.
C17_DeferRotatesQueueOnly ==
  /\ [][ReviewDefer =>
          /\ commits_to_review' = Tail(commits_to_review) \o <<Head(commits_to_review)>>
          /\ Len(commits_to_review') = Len(commits_to_review)
          /\ UNCHANGED <<successfully_applied_commit, skipped_commits, outVars, storeVars,
                         applyLog, user_quit, apply_all_mode, pc, result>>]_vars
  /\ [][(pc = "review" /\ ~ReviewDefer) =>
          /\ \/ commits_to_review' = Tail(commits_to_review)
             \/ commits_to_review' = commits_to_review /\ ReviewApplyAll
          /\ applyLog' # applyLog =>
               applyLog'[Len(applyLog')].hash = Head(commits_to_review).hash
          /\ skipped_commits' # skipped_commits =>
               skipped_commits'[Len(skipped_commits')] = Head(commits_to_review)]_vars

\* the older of two commits was put off: it waits behind the newer one and
\* nothing else has happened in the run
C17_Witness ==
  /\ pc = "review" /\ defers = 1 /\ choices = {"Defer"}
  /\ Len(discovered) = 2
  /\ commits_to_review = <<discovered[2], discovered[1]>>
  /\ applyLog = <<>> /\ skipped_commits = <<>>
  /\ successfully_applied_commit = last_synced_ref /\ output = outputPreRun

(* ------------------------------- C18 ---------------------------------- *)
\* C18: "Apply ALL remaining" on a commit leaves the queue as it was, with
\* that commit at the front, and sets apply_all_mode; nothing is applied
\* in that step.  The mode stays set until the next run starts.  While the
\* loop runs in that mode every step is an apply of the commit at the front
\* of the queue, with no diff shown and no choice asked: Success goes on
\* with the rest of the queue and leaves the loop when it is empty,
\* Conflict and Failure leave the loop with user_quit set.  So a run in
\* that mode whose applies all returned an outcome has either emptied the
\* queue with Success on every commit applied last, or was halted by a
\* Conflict or a Failure.
C18_ApplyAllRunsQueueInOrder ==
  /\ [][ReviewApplyAll =>
          /\ commits_to_review' = commits_to_review
          /\ apply_all_mode'
          /\ UNCHANGED <<applyLog, outVars, storeVars, successfully_applied_commit,
                         skipped_commits, user_quit, pc, result>>]_vars
  /\ [][(apply_all_mode /\ ~apply_all_mode') =>
          \E fetchOk \in BOOLEAN, logOk \in BOOLEAN : StartRun(fetchOk, logOk)]_vars
  /\ [][(apply_all_mode /\ pc = "review") =>
          /\ \E e \in ApplyEnv : ReviewApply(e)
          /\ choices' = choices /\ defers' = defers /\ skipped_commits' = skipped_commits
          /\ commits_to_review' = Tail(commits_to_review)
          /\ Len(applyLog') = Len(applyLog) + 1
          /\ LET a == applyLog'[Len(applyLog')] IN
             /\ a.hash = Head(commits_to_review).hash
             /\ a.result = "Success" =>
                  /\ user_quit' = user_quit
                  /\ pc' = IF Tail(commits_to_review) = <<>> THEN "postloop" ELSE "review"
             /\ a.result \in {"Conflict", "Failure"} => (pc' = "postloop" /\ user_quit')
             /\ a.result = "Error" => (pc' = "returned" /\ result' = "Err_apply")]_vars
  /\ []((apply_all_mode /\ pc \in {"postloop", "confirm"}) =>
          /\ applyLog # <<>>
          /\ ~user_quit => /\ commits_to_review = <<>>
                           /\ applyLog[Len(applyLog)].result = "Success"
          /\ user_quit => applyLog[Len(applyLog)].result \in {"Conflict", "Failure"})

\* the older commit was put off, then "Apply ALL remaining" was chosen on
\* the newer one: both were applied in queue order, newer first, and the
\* loop ended on the empty queue
C18_Witness ==
  /\ pc = "confirm" /\ apply_all_mode /\ ~user_quit
  /\ choices = {"Defer", "ApplyAll"}
  /\ Len(discovered) = 2 /\ Len(applyLog) = 2
  /\ applyLog[1].hash = discovered[2].hash /\ applyLog[2].hash = discovered[1].hash
  /\ commits_to_review = <<>>

(* ------------------------------- C19 ---------------------------------- *)
\* the operator chose "Quit update" in the current run
QuitChosen == "Quit" \in choices

\* hashes of the commits apply_commit_to_output was called for
AppliedHashes == {applyLog[i].hash : i \in 1..Len(applyLog)}

\* C19: "Quit update" leaves the loop in that step with user_quit set.
\* The commit it was chosen on is dropped from the queue without being
\* applied or put on the skip list, and successfully_applied_commit, the
\* output repository and the cursor record are as before the step.  After
\* it nothing is applied or skipped any more: the commits left in the
\* queue stay there, none of them applied or skipped.  The next step of the
\* run is the cursor write, which is always possible and is called once
\* with successfully_applied_commit.
C19_QuitEndsLoopThenWrites ==
  /\ [][ReviewQuit =>
          /\ pc' = "postloop" /\ user_quit'
          /\ Head(commits_to_review).hash \notin AppliedHashes
          /\ Head(commits_to_review) \notin Range(skipped_commits)
          /\ commits_to_review' = Tail(commits_to_review)
          /\ UNCHANGED <<applyLog, skipped_commits, successfully_applied_commit,
                         outVars, storeVars, writes>>]_vars
  /\ [][(QuitChosen /\ pc \in {"postloop", "confirm"}) =>
          /\ UNCHANGED <<applyLog, skipped_commits, successfully_applied_commit,
                         commits_to_review, outVars>>
          /\ pc = "postloop" =>
               /\ \E env \in WriteEnv, cut \in 0..MaxCut : PostLoop(env, cut)
               /\ writes' = 1 /\ written' = successfully_applied_commit]_vars
  /\ [](QuitChosen =>
          /\ pc \in {"postloop", "confirm", "returned"} /\ user_quit
          /\ pc = "postloop" =>
               ENABLED (\E env \in WriteEnv, cut \in 0..MaxCut : PostLoop(env, cut))
          /\ pc # "postloop" => (writes = 1 /\ written = successfully_applied_commit)
          /\ \A k \in 1..Len(commits_to_review) :
               /\ commits_to_review[k].hash \notin AppliedHashes
               /\ commits_to_review[k] \notin Range(skipped_commits))

\* the operator quit on the older of two commits: the newer one is still
\* queued, nothing was applied or skipped, and the unchanged cursor was
\* written
C19_Witness ==
  /\ pc = "confirm" /\ choices = {"Quit"} /\ user_quit
  /\ Len(discovered) = 2 /\ commits_to_review = <<discovered[2]>>
  /\ applyLog = <<>> /\ skipped_commits = <<>>
  /\ writes = 1 /\ written = last_synced_ref
  /\ PersistedCursor = last_synced_ref

(* ------------------------------- C20 ---------------------------------- *)
\* C20 as stated: a discovery called without a cursor returns its error
\* before any repository command has run, so the remote-tracking branch of
\* the internal repository, like everything else, is as it was before the
\* call.
C20_AbsentCursorErrorBeforeFetch ==
  [][\A fetchOk \in BOOLEAN, logOk \in BOOLEAN :
       Discover(None, fetchOk, logOk) =>
         /\ ~libLast'.ok /\ libLast'.value = <<>>
         /\ tracking' = tracking
         /\ UNCHANGED <<storeVars, remote, outVars>>]_vars


\* the histories of the internal branch up to n commits
RECURSIVE Histories(_)
Histories(n) ==
  IF n = 1 THEN {<<"sub">>}
  ELSE LET shorter == Histories(n - 1) IN
       shorter \cup {Append(h, k) : h \in {x \in shorter : Len(x) = n - 1}, k \in CommitKinds}

\* the commits of the tracked subdirectory after position from up to
\* position to, the oldest first
RECURSIVE SubCommits(_, _, _)
SubCommits(rem, from, to) ==
  IF to <= from THEN <<>>
  ELSE SubCommits(rem, from, to - 1)
       \o (IF TouchesSubdir(rem[to]) THEN <<CommitInfo(Hash(to), Subject(to))>> ELSE <<>>)

HasNul(line) == \E k \in 1..Len(line) : line[k] = NUL
Reverse(q) == [i \in 1..Len(q) |-> q[Len(q) + 1 - i]]

\* the parse of the lines just printed has been returned
Parsed == libLast.op = "parse" /\ libPrev.op = "log"

\* C21: the queue discovery returns is the log output, which lists the newest
\* commit first, in reverse order and restricted to the lines that hold an
\* identifier and a subject around a NUL: a line without NUL is dropped,
\* discovery still succeeds and the other entries keep their relative order;
\* a failed fetch does not fail discovery either, the queue is then the log
\* up to the remote-tracking branch as it was.
C21_QueueIsReversedParseableLog ==
  Parsed =>
    /\ libLast.ok
    /\ LET good == Reverse(SelectSeq(libLast.arg, HasNul))
           q    == libLast.value
       IN  /\ Len(q) = Len(good)
           /\ \A i \in 1..Len(q) :
                /\ q[i].hash = splitn2(good[i])[1]
                /\ TrimEnd(q[i].subject) = TrimEnd(splitn2(good[i])[2])
    /\ \A rem \in Histories(MaxCommits) : \A trk \in 1..Len(rem) : \A since \in 1..trk :
         LET d == get_internal_commits_since(rem, trk, Some(Hash(since)), FALSE, TRUE) IN
         d.ok /\ d.tracking = trk /\ d.commits = SubCommits(rem, since, trk)

\* three lines were printed, the middle one without NUL: the queue holds the
\* other two, the older first
C21_Witness ==
  /\ Parsed
  /\ Len(libLast.arg) = 3 /\ ~HasNul(libLast.arg[2]) /\ libLast.arg[2] # <<>>
  /\ Len(libLast.value) = 2
  /\ libLast.value[1].hash = Hash(2) /\ libLast.value[2].hash = Hash(1)

\* C22: the writer thread and the wait cannot deadlock: as long as the call
\* has not returned, the writer, git am or the caller can take a step; an
\* ApplyResult is returned only after the writer thread has ended with the
\* whole patch written and no error; when the write failed or the thread
\* panicked the call returns an error, whatever the exit status of git am.
C22_NoDeadlockOutcomeAfterWriter ==
  /\ waiterPc \in {"wait", "join"} => ENABLED AmProgress
  /\ waiterPc = "done" /\ amReturn[1].ok =>
       /\ writerPc = "ok" /\ patchLeft = 0
       /\ amReturn[1].result \in {"Success", "Conflict", "Failure"}
  /\ waiterPc = "done" /\ writerPc \in {"err", "panic"} => ~amReturn[1].ok

\* git am exited with success before it had read the whole patch: the writer
\* got a broken pipe and the call returned an error
C22_Witness ==
  /\ waiterPc = "done" /\ writerPc = "err" /\ patchLeft > 0
  /\ exitStatus.exit = "success" /\ ~amReturn[1].ok

(* ------------------------------- C23 ---------------------------------- *)
HashesOf(q) == {q[i].hash : i \in 1..Len(q)}
NoDuplicates(q) == \A i, j \in 1..Len(q) : q[i] = q[j] => i = j

\* hashes of the applies of the current run that returned one of results
ApplyHashes(results) ==
  {applyLog[i].hash : i \in {k \in 1..Len(applyLog) : applyLog[k].result \in results}}

\* the discovered commits that are neither queued, skipped nor handed to
\* the applier: taken from the queue by an iteration that ended the loop
Dropped ==
  HashesOf(discovered)
    \ (HashesOf(commits_to_review) \cup HashesOf(skipped_commits) \cup AppliedHashes)

\* C23: between two iterations every discovered commit is in exactly one
\* place: the review queue, the skip list, the applies that returned
\* Success, the one apply that halted the run with Conflict or Failure, or
\* it is the one commit the loop was processing when it ended (Quit, a
\* declined skip after a failed diff, or an error of a prompt or of the
\* applier).  The queue and the skip list hold no commit twice and the
\* applier was called at most once per commit.
C23_CommitsPartitioned ==
  LET Q == HashesOf(commits_to_review)
      K == HashesOf(skipped_commits)
      A == ApplyHashes({"Success"})
      H == ApplyHashes({"Conflict", "Failure"})
      E == ApplyHashes({"Error"})
  IN  /\ NoDuplicates(commits_to_review) /\ NoDuplicates(skipped_commits)
      /\ NoDuplicates([i \in 1..Len(applyLog) |-> applyLog[i].hash])
      /\ Range(commits_to_review) \cup Range(skipped_commits) \subseteq Range(discovered)
      /\ AppliedHashes \subseteq HashesOf(discovered)
      /\ Q \cap K = {} /\ Q \cap AppliedHashes = {} /\ K \cap AppliedHashes = {}
      /\ Cardinality(H) <= 1 /\ Cardinality(E) <= 1 /\ Cardinality(Dropped) <= 1
      /\ Dropped # {} <=> (choices \cap {"Quit", "DiffQuit"} # {} \/ result = "Err_prompt")
      /\ H # {} \/ E # {} => Dropped = {}

\* a run that deferred the first commit, applied the second and quit on the
\* first: one commit applied, one dropped by Quit, none queued
C23_Witness ==
  /\ {"Defer", "Apply", "Quit"} \subseteq choices
  /\ Cardinality(ApplyHashes({"Success"})) = 1 /\ Cardinality(Dropped) = 1
  /\ Len(discovered) = 2 /\ commits_to_review = <<>>

(* ------------------------------- C24 ---------------------------------- *)
\* C24: within one run apply_commit_to_output is called at most once per
\* discovered commit, whatever the operator chooses; a commit it was called
\* for is not in the review queue any more; "Skip for now" and "Apply ALL
\* remaining" put back only a commit it has not been called for, and call
\* it for none.
C24_AppliedAtMostOnceNeverRequeued ==
  /\ [](/\ \A i, j \in 1..Len(applyLog) : applyLog[i].hash = applyLog[j].hash => i = j
        /\ \A i \in 1..Len(commits_to_review) :
             commits_to_review[i].hash \notin AppliedHashes)
  /\ [][ReviewDefer \/ ReviewApplyAll =>
          /\ Head(commits_to_review).hash \notin AppliedHashes
          /\ Head(commits_to_review) \in Range(commits_to_review')
          /\ applyLog' = applyLog]_vars

\* a run that deferred the first commit, switched to Apply All on the
\* second and ended with both applied, each once
C24_Witness ==
  /\ {"Defer", "ApplyAll"} \subseteq choices
  /\ Len(discovered) = 2 /\ Len(applyLog) = 2 /\ commits_to_review = <<>>
  /\ AppliedHashes = HashesOf(discovered)

(* ------------------------------- C25 ---------------------------------- *)
\* the cursor the current run read at its start
PreRunCursor == read_last_synced_commit(filePreRun).value

\* C25: a run does not clear the cursor.  Inside and after the loop
\* successfully_applied_commit is a hash, never None: it starts as the
\* cursor read at the start, which is present, and is only set to the hash
\* of an applied commit.  So the post-loop write is handed a hash, and after
\* a write that returned Ok the record holds a cursor.  A run without a
\* Success writes the pre-run cursor back: the record then reads as before.
C25_RunNeverClearsCursor ==
  /\ RunInLoop =>
       /\ PreRunCursor # None
       /\ successfully_applied_commit # None
       /\ Len(successfully_applied_commit) = 1
       /\ (SuccessIdx = {} => successfully_applied_commit = PreRunCursor)
  /\ RunInLoop /\ writes > 0 =>
       /\ written # None
       /\ (SuccessIdx = {} => written = PreRunCursor)
  /\ RunInLoop /\ WriteOk =>
       /\ PersistedCursor # None
       /\ (SuccessIdx = {} => PersistedCursor = PreRunCursor)

\* the only apply of the run ended in a Conflict or a Failure and the write
\* returned Ok: the record holds the cursor the run started with
C25_Witness ==
  /\ RunInLoop /\ WriteOk /\ writes = 1
  /\ SuccessIdx = {} /\ HaltIdx # {}
  /\ PersistedCursor = PreRunCursor /\ PersistedCursor = Some(Hash(1))

(* ------------------------------- C26 ---------------------------------- *)
\* one iteration of the review loop
Iterate ==
  \/ \E answer \in Answers : ReviewDiffError(answer)
  \/ ReviewPromptError
  \/ \E e \in ApplyEnv : ReviewApply(e)
  \/ ReviewSkip \/ ReviewDefer \/ ReviewApplyAll \/ ReviewQuit

\* a run up to the end of its loop
NextLoop ==
  \/ \E kind \in CommitKinds : UpstreamPush(kind)
  \/ \E fetchOk \in BOOLEAN, logOk \in BOOLEAN : StartRun(fetchOk, logOk)
  \/ Iterate

\* the loop as a sequential program whose prompts are answered: an
\* iteration that can be taken is taken
SpecLive == Init /\ [][NextLoop]_vars /\ WF_vars(Iterate)

\* C26: in Apply All mode an iteration takes one commit from the queue,
\* calls the applier once and puts nothing back, so the applies of a run
\* and the commits still queued are never more than the commits discovered.
\* In interactive mode an iteration that is not "Skip for now" shortens the
\* queue, leaves the loop or switches to Apply All mode, so the loop ends
\* when "Skip for now" is chosen only a bounded number of times.  "Skip for
\* now" itself keeps the loop going with a queue of the same length, and it
\* can be chosen again in every interactive iteration.
C26_LoopEndsUnlessDeferredForever ==
  /\ [][InLoop /\ apply_all_mode /\ commits_to_review' # commits_to_review =>
          /\ Len(commits_to_review') = Len(commits_to_review) - 1
          /\ Len(applyLog') = Len(applyLog) + 1
          /\ apply_all_mode']_vars
  /\ [](apply_all_mode => Len(applyLog) + Len(commits_to_review) <= Len(discovered))
  /\ [][InLoop /\ ~apply_all_mode /\ ~ReviewDefer =>
          \/ Len(commits_to_review') < Len(commits_to_review)
          \/ pc' # "review"
          \/ apply_all_mode']_vars
  /\ [][ReviewDefer =>
          /\ pc' = "review" /\ ~apply_all_mode'
          /\ Len(commits_to_review') = Len(commits_to_review)]_vars
  /\ [](InLoop /\ ~apply_all_mode /\ defers < MaxDefer => ENABLED ReviewDefer)
  /\ (pc = "review" ~> pc # "review")

\* the loop was left on an empty queue after "Skip for now" was chosen as
\* often as the bound allows and Apply All mode applied both commits
C26_Witness ==
  /\ pc = "postloop" /\ defers = MaxDefer /\ apply_all_mode /\ ~user_quit
  /\ Len(applyLog) = 2 /\ Len(discovered) = 2 /\ commits_to_review = <<>>

(* ------------------------------- C27 ---------------------------------- *)
\* the run returned the error of the applier or of an operator prompt
ReturnedLoopError == pc = "returned" /\ result \in {"Err_apply", "Err_prompt"}

\* C27: when apply_commit_to_output returns an error (format-patch failed,
\* git am could not be started or waited for, the patch could not be
\* written to it) or a prompt of the loop fails, the run returns that error
\* in the same step.  The post-loop write is not reached: the cursor record
\* is the one the run started with, also when commits were applied with
\* Success before, and the next discovery returns those commits again.
C27_LoopErrorSkipsCursorWrite ==
  /\ [][Len(applyLog') = Len(applyLog) + 1
          /\ applyLog'[Len(applyLog')].result = "Error" =>
            pc' = "returned" /\ result' = "Err_apply"]_vars
  /\ [][ReviewPromptError \/ ReviewDiffError("err") =>
          pc' = "returned" /\ result' = "Err_prompt"]_vars
  /\ [](ReturnedLoopError =>
          /\ writes = 0 /\ stateFile = filePreRun /\ offered = "none"
          /\ PersistedCursor = PreRunCursor
          /\ \A fetchOk \in BOOLEAN : \A i \in SuccessIdx :
               applyLog[i].hash \in HashesOf(Rediscover(fetchOk).commits))

\* the first commit was applied with Success and is in the output
\* repository, the apply of the second returned an error: the record still
\* names the extract point and the first commit is discovered again
C27_Witness ==
  /\ ReturnedLoopError /\ result = "Err_apply"
  /\ Len(applyLog) = 2 /\ applyLog[1].result = "Success" /\ applyLog[1].invoked
  /\ applyLog[1].hash \in Range(output)
  /\ PersistedCursor = Some(Hash(1))
  /\ Rediscover(FALSE).commits # <<>>
  /\ Rediscover(FALSE).commits[1].hash = applyLog[1].hash

(* ------------------------------- C28 ---------------------------------- *)
\* positions in the internal remote branch of the commits of the cursor
\* record that lie after the persisted cursor
StateCommitsAfterCursor ==
  {p \in 1..Len(remote) :
     /\ remote[p] = "state"
     /\ PersistedCursor # None
     /\ Pos(PersistedCursor[1]) \in 1..(p - 1)}

\* C28: the cursor record is a file of the tracked subdirectory, so the
\* commit commit_state_file_change makes is a commit of that subdirectory.
\* Once it is on the internal remote branch it lies after the commit it
\* records, and a discovery from a cursor before it that fetches returns
\* it: after a run that applied everything and committed its cursor, and
\* the push of that commit, discovery is not empty.
C28_StateCommitIsDiscovered ==
  /\ [][PushStateCommit =>
          /\ TouchesSubdir(remote'[Len(remote')])
          /\ \A k \in 1..Len(stateCommits) :
               Resolve(stateCommits[k][1], Len(remote')) \in 1..Len(remote)]_vars
  /\ [](\A p \in StateCommitsAfterCursor :
          /\ Rediscover(TRUE).ok
          /\ Hash(p) \in HashesOf(Rediscover(TRUE).commits))

\* the run applied the one discovered commit, wrote and committed the
\* cursor, and the commit was pushed: the next discovery returns exactly
\* that commit
C28_Witness ==
  /\ pc = "returned" /\ result = "Ok" /\ offered = "yes"
  /\ Len(applyLog) = Len(discovered) /\ SuccessIdx = 1..Len(applyLog)
  /\ Len(stateCommits) = 1 /\ PersistedCursor = stateCommits[1]
  /\ remote[Len(remote)] = "state"
  /\ HashesOf(Rediscover(TRUE).commits) = {Hash(Len(remote))}

(* ------------------------------- C29 ---------------------------------- *)
\* the run that was started after the halted one
Resumed == runs > MaxRuns

\* C29: after a run that halted on a Conflict at a commit and wrote its
\* cursor, the cursor is a commit before that one, and it stays so whatever
\* the operator does in the output repository (continue or abort the paused
\* apply): the next discovery returns the commit again.  The next run does
\* not look at the output repository before it applies: it enters its loop
\* with the commit in its queue, also when the commit is already in the
\* output repository or the apply session is still open, and the applier
\* can be called for it again.
C29_ConflictCommitAppliedAgain ==
  /\ [](pc = "returned" /\ ~Resumed /\ ConflictHalted /\ WriteOk =>
          /\ PersistedCursor # None
          /\ Pos(PersistedCursor[1]) \in 1..(Pos(ConflictCommit) - 1)
          /\ \A fetchOk \in BOOLEAN :
               ConflictCommit \in HashesOf(Rediscover(fetchOk).commits))
  /\ [][OperatorContinue \/ OperatorAbort => UNCHANGED <<storeVars, repoVars>>]_vars
  /\ [][runs' > MaxRuns /\ ~Resumed /\ WriteOk =>
          \/ pc' = "returned" /\ result' = "Err_discovery"
          \/ pc' = "review" /\ ConflictCommit \in HashesOf(commits_to_review')]_vars
  /\ [](Resumed /\ InLoop => \E e \in ApplyEnv : ENABLED ReviewApply(e))

(* ------------------------------- C30 ---------------------------------- *)
\* C30: when the diff of a commit cannot be produced in interactive mode,
\* the iteration asks only whether to skip the commit: the applier is not
\* called and none of the five choices is recorded.  On "yes" the commit
\* goes to the end of the skip list and the loop goes on with the next
\* entry; on "no" user_quit is set and the loop is left, as by Quit.  In
\* both cases successfully_applied_commit, the output repository and the
\* cursor record stay as they are, and the post-loop write follows: it is
\* the next step after the loop and has been made once when the run is
\* past it.
C30_DiffFailureSkipsOrQuits ==
  /\ [][skipped_commits' # skipped_commits \/ user_quit' # user_quit =>
          \A answer \in {"yes", "no"} :
            ReviewDiffError(answer) =>
              /\ ~apply_all_mode
              /\ applyLog' = applyLog
              /\ choices' \ choices \subseteq {"DiffSkip", "DiffQuit"}
              /\ UNCHANGED <<successfully_applied_commit, storeVars, outVars, writes>>
              /\ commits_to_review' = Tail(commits_to_review)
              /\ answer = "yes" =>
                   /\ skipped_commits' = Append(skipped_commits, Head(commits_to_review))
                   /\ user_quit' = user_quit
                   /\ pc' = IF commits_to_review' = <<>> THEN "postloop" ELSE "review"
              /\ answer = "no" =>
                   /\ skipped_commits' = skipped_commits
                   /\ user_quit' /\ pc' = "postloop"]_vars
  /\ [](pc = "postloop" => writes = 0 /\ ENABLED PostLoop("ok", 0))
  /\ []("DiffQuit" \in choices =>
          /\ user_quit /\ pc \in {"postloop", "confirm", "returned"}
          /\ (pc # "postloop" => writes = 1 /\ written = successfully_applied_commit))

\* the diff of the first commit failed and the operator skipped it, the
\* diff of the second failed and the operator declined: nothing was
\* applied and the write put the pre-run cursor back
C30_Witness ==
  /\ {"DiffSkip", "DiffQuit"} \subseteq choices
  /\ pc = "confirm" /\ writes = 1 /\ user_quit
  /\ Len(skipped_commits) = 1 /\ applyLog = <<>> /\ output = <<>>
  /\ written = PreRunCursor /\ PersistedCursor = PreRunCursor
====
